---- MODULE Spec2Model ----
(***************************************************************************)
(* Carlos the Architect: the LLM connection pool (backend/llm_pool.py),    *)
(* the agent pipeline compiled by backend/graph.py and the streaming       *)
(* facade of backend/main.py, as state machines.                           *)
(*                                                                         *)
(* PoolSpec  : leases on the three pools, every interleaving.              *)
(* Spec      : one run of carlos_graph and the events design_stream emits. *)
(* CallSpec  : the functions of the backend called on their own, on every  *)
(*             argument of a bounded set.                                  *)
(***************************************************************************)
EXTENDS Integers, Naturals, Sequences, FiniteSets, TLC

None == "None"
\* `idx = None` of the context managers: no pool index (indices are 0-based)
NoIdx == -1

(***************************************************************************)
(* Bounds of the model.                                                    *)
(***************************************************************************)
\* number of concurrent callers of the pool
NumLeases == 2
\* the size LLMPool(size) is constructed with
PoolSize == 1

Leases == 1..NumLeases
Kinds == {"main", "ronei", "mini"}

VARIABLES
    size,        \* LLMPool.size
    pool,        \* pool[k]: the list main_pool / ronei_pool / mini_pool
    in_use,      \* in_use[k]: the set main_in_use / ronei_in_use / mini_in_use
    lock,        \* lock[k]: the holders of main_lock / ronei_lock / mini_lock ({} when free)
    initialized, \* initialize() has run
    lpc,         \* lpc[l]: position of caller l inside get_*_llm
    lkind,       \* lkind[l]: which get_*_llm caller l is in
    idx,         \* idx[l]: the local idx of the context manager
    llm,         \* llm[l]: the local llm of the context manager
    raised,      \* raised[l]: the body of the lease raised
    poolHist     \* what has happened so far: overflow leases, raising bodies

poolVars == <<size, pool, in_use, lock, initialized, lpc, lkind, idx, llm,
              raised, poolHist>>

VARIABLES
    req,         \* the request body of /design-stream
    state,       \* the channels of the running graph: the merged CarlosState
    gstatus,     \* "idle", "running", "END", "raised" or "out_of_steps"
    step,        \* supersteps completed
    active,      \* nodes of the current superstep that have not completed
    writes,      \* <<[node, patch]>> of the current superstep, in completion order
    streamed,    \* how many of `writes` astream has handed to event_generator
    executions,  \* executions[n]: how often node n has run
    first_node,  \* the first node that ran
    failures,    \* model calls that have failed
    malformed,   \* reviewer answers that were not JSON of the schema
    gen,         \* event_generator: "start", "streaming" or "closed"
    final_state, \* the dict event_generator accumulates
    bracket,     \* the events of the last node completion
    emitted,     \* number of events sent so far
    terminal     \* the terminal events sent so far

graphVars == <<req, state, gstatus, step, active, writes, streamed, executions,
               first_node, failures, malformed>>
streamVars == <<gen, final_state, bracket, emitted, terminal>>

VARIABLES
    call,        \* a function of the backend called on its own: [fn, arg]
    result       \* <<>> until the call has returned, then <<its value>>

callVars == <<call, result>>

\* the callers of the pool leave the run alone
GraphIdle == UNCHANGED <<graphVars, streamVars, callVars>>

(***************************************************************************)
(* create_llm: a client bound to (temperature, model tier).  Temperatures  *)
(* are in tenths.                                                          *)
(***************************************************************************)
create_llm(temperature, use_mini) ==
    [temperature |-> temperature, use_mini |-> use_mini]

\* the arguments each get_*_llm and initialize pass to create_llm
KindLLM(k) ==
    CASE k = "main"  -> create_llm(7, FALSE)
      [] k = "ronei" -> create_llm(9, FALSE)
      [] k = "mini"  -> create_llm(7, TRUE)

\* `llm = None` of the context managers: no client
NoLLM == [temperature |-> 0, use_mini |-> FALSE, none |-> TRUE]

Max(a, b) == IF a >= b THEN a ELSE b

\* three pools of the same capacity
EqualCapacity(k, n) == n

\* range(...) of the three warm-up loops of initialize
PoolCapacity(k, n) ==
    CASE k = "main"  -> n
      [] k = "ronei" -> Max(2, n \div 2)
      [] k = "mini"  -> n

\* pools are 0-indexed lists: element i of pool[k] is pool[k][i + 1]
PoolIndices(k) == 0..(Len(pool[k]) - 1)

PoolInit ==
    /\ size = PoolSize
    /\ pool = [k \in Kinds |-> <<>>]
    /\ in_use = [k \in Kinds |-> {}]
    /\ lock = [k \in Kinds |-> {}]
    /\ initialized = FALSE
    /\ lpc = [l \in Leases |-> "idle"]
    /\ lkind = [l \in Leases |-> None]
    /\ idx = [l \in Leases |-> NoIdx]
    /\ llm = [l \in Leases |-> NoLLM]
    /\ raised = [l \in Leases |-> FALSE]
    /\ poolHist = [overflow |-> FALSE, raised |-> FALSE]

\* LLMPool.initialize: pre-warm the three pools
initialize ==
    /\ ~initialized
    /\ initialized' = TRUE
    /\ pool' = [k \in Kinds |->
                  pool[k] \o [i \in 1..PoolCapacity(k, size) |-> KindLLM(k)]]
    /\ UNCHANGED <<size, in_use, lock, lpc, lkind, idx, llm, raised, poolHist>> /\ GraphIdle

(***************************************************************************)
(* get_main_llm / get_ronei_llm / get_mini_llm: the same context manager   *)
(* over the kind's pool, in-use set and lock.                              *)
(***************************************************************************)
\* a caller enters `async with pool.get_<k>_llm()`
get_llm(l, k) ==
    /\ initialized
    /\ lpc[l] = "idle"
    /\ lpc' = [lpc EXCEPT ![l] = "waiting"]
    /\ lkind' = [lkind EXCEPT ![l] = k]
    /\ UNCHANGED <<size, pool, in_use, lock, initialized, idx, llm, raised, poolHist>> /\ GraphIdle

\* `async with self.<k>_lock:` of the acquire half
AcquireLock(l) ==
    /\ lpc[l] = "waiting"
    /\ lock[lkind[l]] = {}
    /\ lock' = [lock EXCEPT ![lkind[l]] = {l}]
    /\ lpc' = [lpc EXCEPT ![l] = "locked"]
    /\ UNCHANGED <<size, pool, in_use, initialized, lkind, idx, llm, raised, poolHist>> /\ GraphIdle

\* a scan that takes the first index of the pool without looking at in_use
ScanAnyIndex(k) ==
    IF Len(pool[k]) = 0 THEN NoIdx ELSE 0

\* a scan that falls back to index 0 when every handle is in use
FirstFreeOrZero(k) ==
    LET free == {i \in PoolIndices(k) : i \notin in_use[k]}
    IN IF free = {} THEN 0
       ELSE CHOOSE i \in free : \A j \in free : i <= j

\* the for-loop: the first index of the pool that is not in use, else none
FirstFree(k) ==
    LET free == {i \in PoolIndices(k) : i \notin in_use[k]}
    IN IF free = {} THEN NoIdx
       ELSE CHOOSE i \in free : \A j \in free : i <= j

\* a temporary handle created with the arguments of another pool
TempOfOtherKind(k) == KindLLM(IF k = "mini" THEN "main" ELSE "mini")

\* the handle of `if llm is None:`, created outside the pool
TemporaryLLM(k) == KindLLM(k)

\* a lock that stays with the caller until its lease is released
LockKeptByHolder(l) == {l}

\* who holds the lock once the `async with self.<k>_lock` block is left
LockAfterBlock(l) == {}

\* scan, mark, fall back to a temporary connection, leave the lock, yield
ScanAndMark(l) ==
    LET k == lkind[l]
        i == FirstFree(k)
    IN /\ lpc[l] = "locked"
       /\ lock[k] = {l}
       /\ idx' = [idx EXCEPT ![l] = i]
       /\ IF i # NoIdx
            THEN /\ in_use' = [in_use EXCEPT ![k] = @ \cup {i}]
                 /\ llm' = [llm EXCEPT ![l] = pool[k][i + 1]]
                 /\ poolHist' = poolHist
            ELSE /\ in_use' = in_use
                 /\ llm' = [llm EXCEPT ![l] = TemporaryLLM(k)]
                 /\ poolHist' = [poolHist EXCEPT !.overflow = TRUE]
       /\ lock' = [lock EXCEPT ![k] = LockAfterBlock(l)]
       /\ lpc' = [lpc EXCEPT ![l] = "body"]
       /\ UNCHANGED <<size, pool, initialized, lkind, raised>> /\ GraphIdle

\* the context manager is left: its locals are gone
Exited(f, l, v) == [f EXCEPT ![l] = v]

\* the body of the `async with` returns: the finally block runs, and with
\* idx unset it does nothing
BodyReturns(l) ==
    /\ lpc[l] = "body"
    /\ IF idx[l] # NoIdx
         THEN /\ lpc' = [lpc EXCEPT ![l] = "finally"]
              /\ UNCHANGED <<lkind, idx, llm, raised>>
         ELSE /\ lpc' = Exited(lpc, l, "idle")
              /\ lkind' = Exited(lkind, l, None)
              /\ idx' = Exited(idx, l, NoIdx)
              /\ llm' = Exited(llm, l, NoLLM)
              /\ raised' = Exited(raised, l, FALSE)
    /\ UNCHANGED <<size, pool, in_use, lock, initialized, poolHist>> /\ GraphIdle

\* the body of the `async with` raises: the finally block still runs
BodyRaises(l) ==
    /\ lpc[l] = "body"
    /\ poolHist' = [poolHist EXCEPT !.raised = TRUE]
    /\ IF idx[l] # NoIdx
         THEN /\ lpc' = [lpc EXCEPT ![l] = "finally"]
              /\ raised' = [raised EXCEPT ![l] = TRUE]
              /\ UNCHANGED <<lkind, idx, llm>>
         ELSE /\ lpc' = Exited(lpc, l, "idle")
              /\ lkind' = Exited(lkind, l, None)
              /\ idx' = Exited(idx, l, NoIdx)
              /\ llm' = Exited(llm, l, NoLLM)
              /\ raised' = Exited(raised, l, FALSE)
    /\ UNCHANGED <<size, pool, in_use, lock, initialized>> /\ GraphIdle

\* `async with self.<k>_lock:` of the finally block
FinallyLock(l) ==
    /\ lpc[l] = "finally"
    /\ lock[lkind[l]] = {}
    /\ lock' = [lock EXCEPT ![lkind[l]] = {l}]
    /\ lpc' = [lpc EXCEPT ![l] = "discarding"]
    /\ UNCHANGED <<size, pool, in_use, initialized, lkind, idx, llm, raised, poolHist>> /\ GraphIdle

\* a release that leaves the index marked
KeepMarked(s, i) == s

\* self.<k>_in_use.discard(idx)
Discarded(s, i) == s \ {i}

Discard(l) ==
    LET k == lkind[l]
    IN /\ lpc[l] = "discarding"
       /\ lock[k] = {l}
       /\ in_use' = [in_use EXCEPT ![k] = Discarded(@, idx[l])]
       /\ lock' = [lock EXCEPT ![k] = {}]
       /\ lpc' = Exited(lpc, l, "idle")
       /\ lkind' = Exited(lkind, l, None)
       /\ idx' = Exited(idx, l, NoIdx)
       /\ llm' = Exited(llm, l, NoLLM)
       /\ raised' = Exited(raised, l, FALSE)
       /\ UNCHANGED <<size, pool, initialized, poolHist>> /\ GraphIdle

\* statistics that count every caller inside a context manager, the ones on
\* temporary handles included
StatsCountingCallers ==
    [k \in Kinds |->
        LET inside == Cardinality({l \in Leases : lkind[l] = k /\ llm[l] # NoLLM})
        IN [total |-> Len(pool[k]),
            in_use |-> inside,
            available |-> Len(pool[k]) - inside]]

\* LLMPool.get_pool_stats
get_pool_stats ==
    [k \in Kinds |->
        [total |-> Len(pool[k]),
         in_use |-> Cardinality(in_use[k]),
         available |-> Len(pool[k]) - Cardinality(in_use[k])]]

\* a caller reads the statistics; nothing of the pool is written
ReadPoolStats ==
    /\ call.fn = "none"
    /\ result' = <<get_pool_stats>>
    /\ UNCHANGED <<call, poolVars, graphVars, streamVars>>

PoolNext ==
    \/ initialize
    \/ \E l \in Leases, k \in Kinds : get_llm(l, k)
    \/ \E l \in Leases : AcquireLock(l)
    \/ \E l \in Leases : ScanAndMark(l)
    \/ \E l \in Leases : BodyReturns(l)
    \/ \E l \in Leases : BodyRaises(l)
    \/ \E l \in Leases : FinallyLock(l)
    \/ \E l \in Leases : Discard(l)


(***************************************************************************)
(* The pipeline of backend/graph.py.  CarlosState is a dict: a function    *)
(* whose domain is the set of keys present.  Texts are abstracted to the   *)
(* few strings the code tells apart; the transcript `conversation` is the  *)
(* multiset of its role-labelled entries (how many entries of each role).  *)
(***************************************************************************)
\* supersteps one run may take before LangGraph stops it (recursion_limit)
RecursionLimit == 15
\* chunks the model streams for one answer
TokensPerResponse == 2
\* model calls that may fail in one run
MaxLLMFailures == 1
\* reviewer answers of one run that may be something else than JSON of the schema
MaxMalformedAnswers == 1

Nodes == {"requirements_gathering", "refine_requirements", "historical_learning",
          "reference_search", "design", "ronei_design", "security", "cost",
          "reliability", "audit", "recommender", "terraform_coder",
          "terraform_validator", "terraform_corrector"}

END == "__end__"

Roles == {"Requirements Team", "Refined Requirements", "Carlos", "Ronei",
          "Security Analyst", "Cost Specialist", "SRE", "Chief Auditor",
          "Design Recommender", "Terraform Coder", "Terraform Validator",
          "Terraform Coder (Correction)"}


\* dict.get(key, default)
Get(d, key, default) == IF key \in DOMAIN d THEN d[key] ELSE default
\* Python truthiness of an optional string
Truthy(d, key) == key \in DOMAIN d /\ d[key] # ""

\* the empty transcript "" and a transcript plus one role-labelled entry
EmptyConversation == [r \in Roles |-> 0]
Entry(role) == [r \in Roles |-> IF r = role THEN 1 ELSE 0]
ConvLen(c) ==
    c["Requirements Team"] + c["Refined Requirements"] + c["Carlos"] + c["Ronei"]
    + c["Security Analyst"] + c["Cost Specialist"] + c["SRE"] + c["Chief Auditor"]
    + c["Design Recommender"] + c["Terraform Coder"] + c["Terraform Validator"]
    + c["Terraform Coder (Correction)"]

\* str + str on transcripts
Concat(a, b) == [r \in Roles |-> a[r] + b[r]]

\* a conversation channel without reducer: the last write replaces the value
LastValueWins(a, b) == b

\* Annotated[str, operator.add]: the reducer of the conversation channel
operator_add(a, b) == Concat(a, b)

\* keys of CarlosState with a reducer; every other key is last-value
Reduced == {"conversation"}

\* one node's partial update merged into the channels
ApplyPatch(s, p) ==
    [k \in DOMAIN s \cup DOMAIN p |->
        IF k \in DOMAIN p
        THEN IF k \in Reduced /\ k \in DOMAIN s
             THEN operator_add(s[k], p[k])
             ELSE p[k]
        ELSE s[k]]

RECURSIVE ApplyWrites(_, _)
ApplyWrites(s, ws) ==
    IF ws = <<>> THEN s
    ELSE ApplyWrites(ApplyPatch(s, Head(ws).patch), Tail(ws))

\* the chunks a streamed answer arrives in
Chunks == [i \in 1..TokensPerResponse |-> [chunk |-> i]]

\* "<x>_tokens": [response] of the except blocks: the one-element list
PlaceholderTokens(response) == <<response>>

\* convo = state.get("conversation", ""); convo += "**<Role>:**\n" + ... 
Convo(s, role) == Concat(Get(s, "conversation", EmptyConversation), Entry(role))

(***************************************************************************)
(* Routers.                                                                *)
(***************************************************************************)
\* the entry router with its test inverted
GatherWhenAnswered(s) ==
    IF Truthy(s, "user_answers") THEN "requirements_gathering" ELSE "refine_requirements"

\* a start router that refines whatever the request holds
AlwaysRefine(s) == "refine_requirements"

\* should_gather_requirements: the router of START
should_gather_requirements(s) ==
    IF ~Truthy(s, "user_answers") THEN "requirements_gathering" ELSE "refine_requirements"

\* a router after requirements_gathering that goes on whatever the state holds
RefineAfterGathering(s) == "refine_requirements"

\* check_for_answers: the router after requirements_gathering
check_for_answers(s) ==
    IF Truthy(s, "user_answers") THEN "refine_requirements" ELSE END

\* an audit edge that goes on to the recommender whatever the verdict
AuditAlwaysPasses(s) == "recommender"

\* lambda x: "recommender" if x["audit_status"] == "approved" else "design"
audit_router(s) ==
    IF s["audit_status"] = "approved" THEN "recommender" ELSE "design"

MAX_CORRECTION_ITERATIONS == 2

\* a validation router that does not look at the iteration counter
RouterWithoutCap(s) ==
    IF Get(s, "terraform_validation_status", "PASS") = "NEEDS_FIXES"
    THEN "terraform_corrector" ELSE "end"

\* a validation router that allows one pass more than the cap
RouterCapOffByOne(s) ==
    IF Get(s, "terraform_validation_status", "PASS") = "NEEDS_FIXES"
       /\ Get(s, "terraform_correction_iteration", 0) <= MAX_CORRECTION_ITERATIONS
    THEN "terraform_corrector" ELSE "end"

\* terraform_validation_router
terraform_validation_router(s) ==
    LET validation_status == Get(s, "terraform_validation_status", "PASS")
        current_iteration == Get(s, "terraform_correction_iteration", 0)
    IN IF validation_status = "PASS" THEN "end"
       ELSE IF validation_status = "PASS_WITH_WARNINGS" THEN "end"
       ELSE IF validation_status = "NEEDS_FIXES"
            THEN IF current_iteration < MAX_CORRECTION_ITERATIONS
                 THEN "terraform_corrector" ELSE "end"
       ELSE "end"

\* {"terraform_corrector": "terraform_corrector", "end": END}
ValidatorPathMap(r) == IF r = "terraform_corrector" THEN "terraform_corrector" ELSE END


\* the edges with audit wired to the designs instead of to the reviewers
EdgesWithAuditAfterDesign(n) ==
    CASE n = "refine_requirements" -> {"historical_learning"}
      [] n = "historical_learning" -> {"reference_search"}
      [] n = "reference_search" -> {"design", "ronei_design"}
      [] n = "design" -> {"security", "cost", "reliability", "audit"}
      [] n = "ronei_design" -> {"security", "cost", "reliability", "audit"}
      [] n = "recommender" -> {"terraform_coder"}
      [] n = "terraform_coder" -> {"terraform_validator"}
      [] n = "terraform_corrector" -> {"terraform_validator"}
      [] OTHER -> {}

\* the edges with the recommender as the last node of the pipeline
EdgesEndingAtRecommender(n) ==
    CASE n = "refine_requirements" -> {"historical_learning"}
      [] n = "historical_learning" -> {"reference_search"}
      [] n = "reference_search" -> {"design", "ronei_design"}
      [] n = "design" -> {"security", "cost", "reliability"}
      [] n = "ronei_design" -> {"security", "cost", "reliability"}
      [] n = "security" -> {"audit"}
      [] n = "cost" -> {"audit"}
      [] n = "reliability" -> {"audit"}
      [] OTHER -> {}

\* the edges with both context nodes started by refine_requirements
EdgesWithParallelContext(n) ==
    CASE n = "refine_requirements" -> {"historical_learning", "reference_search"}
      [] n = "reference_search" -> {"design", "ronei_design"}
      [] n = "design" -> {"security", "cost", "reliability"}
      [] n = "ronei_design" -> {"security", "cost", "reliability"}
      [] n = "security" -> {"audit"}
      [] n = "cost" -> {"audit"}
      [] n = "reliability" -> {"audit"}
      [] n = "recommender" -> {"terraform_coder"}
      [] n = "terraform_coder" -> {"terraform_validator"}
      [] n = "terraform_corrector" -> {"terraform_validator"}
      [] OTHER -> {}

\* builder.add_edge(...)
StaticEdges(n) ==
    CASE n = "refine_requirements" -> {"historical_learning"}
      [] n = "historical_learning" -> {"reference_search"}
      [] n = "reference_search" -> {"design", "ronei_design"}
      [] n = "design" -> {"security", "cost", "reliability"}
      [] n = "ronei_design" -> {"security", "cost", "reliability"}
      [] n = "security" -> {"audit"}
      [] n = "cost" -> {"audit"}
      [] n = "reliability" -> {"audit"}
      [] n = "recommender" -> {"terraform_coder"}
      [] n = "terraform_coder" -> {"terraform_validator"}
      [] n = "terraform_corrector" -> {"terraform_validator"}
      [] OTHER -> {}

\* builder.add_conditional_edges(...): the router reads the channels as the
\* node that has just completed sees them, its own update applied
ConditionalEdges(n, s) ==
    CASE n = "requirements_gathering" -> {check_for_answers(s)} \ {END}
      [] n = "audit" -> {audit_router(s)}
      [] n = "terraform_validator" ->
             {ValidatorPathMap(terraform_validation_router(s))} \ {END}
      [] OTHER -> {}

\* the nodes the completed nodes of a superstep trigger
Triggered(s, ws) ==
    UNION {StaticEdges(ws[i].node)
             \cup ConditionalEdges(ws[i].node, ApplyPatch(s, ws[i].patch)) :
           i \in 1..Len(ws)}

(***************************************************************************)
(* The model call of a node: `async for chunk in llm.astream(messages)`    *)
(* either streams one of the answers the node tells apart, or raises.      *)
(***************************************************************************)
\* reviewer answers: JSON of the schema, JSON of another shape, no JSON
ReviewerResponses == {"json", "json of another shape", "prose"}
AuditResponses == {"APPROVED", "NEEDS REVISION"}
AuditUnavailable == "APPROVED - audit review unavailable due to error"

\* raw recommender answers: the tag the answer starts with (if any) and the
\* names it mentions
RecommenderResponses ==
    {[starts |-> "RECOMMEND: CARLOS", carlos |-> TRUE, ronei |-> FALSE],
     [starts |-> "", carlos |-> FALSE, ronei |-> TRUE]}
RecommendationUnavailable ==
    [starts |-> "RECOMMEND: CARLOS", carlos |-> TRUE, ronei |-> FALSE]

\* validator reports: the status line the regex finds ("" when none), the
\* keywords of the fallback scan, a non-empty critical-issues section
ValidatorResponses ==
    {[status_line |-> "PASS", keyword |-> "", critical |-> FALSE],
     [status_line |-> "PASS WITH WARNINGS", keyword |-> "", critical |-> FALSE],
     [status_line |-> "NEEDS FIXES", keyword |-> "", critical |-> FALSE]}

\* json.loads of the (unfenced) answer succeeds
ParsesAsJson(response) == response \in {"json", "json of another shape"}

\* <X>Analysis(**data) accepts the parsed answer
MatchesSchema(response) == response = "json"

Reviewers == {"security", "cost", "reliability"}

\* the answers a model call of node n can stream
Responses(n) ==
    CASE n \in Reviewers ->
             {r \in ReviewerResponses :
                 \/ ParsesAsJson(r) /\ MatchesSchema(r)
                 \/ malformed < MaxMalformedAnswers}
      [] n = "audit" -> AuditResponses
      [] n = "recommender" -> RecommenderResponses
      [] n = "terraform_validator" -> ValidatorResponses
      [] OTHER -> {"text"}

\* the outcomes of one model call; the answer of a failed call is not used
ModelCall(n) ==
    {[ok |-> TRUE, response |-> r] : r \in Responses(n)}
    \cup (IF failures < MaxLLMFailures
          THEN {[ok |-> FALSE, response |-> CHOOSE r \in Responses(n) : TRUE]}
          ELSE {})

\* a node returns its partial update; astream has handed the updates of the
\* nodes that completed before it to event_generator
Completes(n, p, failed, off_schema) ==
    /\ gstatus = "running"
    /\ n \in active
    /\ streamed = Len(writes)
    /\ active' = active \ {n}
    /\ writes' = Append(writes, [node |-> n, patch |-> p])
    /\ executions' = [executions EXCEPT ![n] = @ + 1]
    /\ first_node' = IF first_node = None THEN n ELSE first_node
    /\ failures' = IF failed THEN failures + 1 ELSE failures
    /\ malformed' = IF off_schema THEN malformed + 1 ELSE malformed
    /\ UNCHANGED <<req, state, gstatus, step, streamed>>
    /\ UNCHANGED <<streamVars, poolVars, callVars>>

\* an exception leaves the node: the run is over, the other branches of the
\* superstep are cancelled
Raises(n) ==
    /\ gstatus = "running"
    /\ n \in active
    /\ streamed = Len(writes)
    /\ gstatus' = "raised"
    /\ active' = {}
    /\ executions' = [executions EXCEPT ![n] = @ + 1]
    /\ first_node' = IF first_node = None THEN n ELSE first_node
    /\ failures' = failures + 1
    /\ UNCHANGED <<req, state, step, writes, streamed, malformed>>
    /\ UNCHANGED <<streamVars, poolVars, callVars>>

requirements_gathering_node ==
    \E out \in ModelCall("requirements_gathering") :
        IF out.ok
        THEN Completes("requirements_gathering",
                 [refined_requirements |-> state["requirements"],
                  clarification_needed |-> TRUE,
                  conversation |-> Convo(state, "Requirements Team"),
                  requirements_tokens |-> Chunks], FALSE, FALSE)
        ELSE Raises("requirements_gathering")

refine_requirements_node ==
    IF ~Truthy(state, "user_answers")
    THEN Completes("refine_requirements",
             [refined_requirements |-> state["requirements"],
              refine_tokens |-> <<>>], FALSE, FALSE)
    ELSE \E out \in ModelCall("refine_requirements") :
        IF out.ok
        THEN Completes("refine_requirements",
                 [refined_requirements |-> out.response,
                  clarification_needed |-> FALSE,
                  conversation |-> Convo(state, "Refined Requirements"),
                  refine_tokens |-> Chunks], FALSE, FALSE)
        ELSE Raises("refine_requirements")

\* what a context provider meets: results, nothing relevant, the timeout of
\* asyncio.wait_for, any other exception
ProviderOutcomes == {"found", "nothing", "timeout", "error"}

\* a provider that lets the timeout of wait_for through to its caller
HistoricalContextRaisingOnTimeout(outcome) ==
    IF outcome = "timeout" THEN [raised |-> TRUE, context |-> ""]
    ELSE [raised |-> FALSE,
          context |-> IF outcome = "found" THEN "history" ELSE ""]

\* historical_learning.get_historical_context: the formatted context, or ""
\* on asyncio.TimeoutError and on any other exception
get_historical_context(outcome) ==
    [raised |-> FALSE,
     context |-> IF outcome = "found" THEN "history" ELSE ""]

\* reference_search.get_reference_context: (context, references), or
\* ("", []) when nothing is found, on timeout and on any other exception
get_reference_context(outcome) ==
    [raised |-> FALSE,
     context |-> IF outcome = "found" THEN "references" ELSE "",
     references |-> IF outcome = "found" THEN <<"reference">> ELSE <<>>]

\* the patch of historical_learning_node; its own except gives ""
HistoricalPatch(outcome) ==
    LET provided == get_historical_context(outcome)
    IN [historical_context |-> IF provided.raised THEN "" ELSE provided.context]

\* the patch of reference_search_node; its own except gives "" and []
ReferencePatch(outcome) ==
    LET provided == get_reference_context(outcome)
    IN [reference_context |-> IF provided.raised THEN "" ELSE provided.context,
        references |-> IF provided.raised THEN <<>> ELSE provided.references]

historical_learning_node ==
    /\ "historical_learning" \in active
    /\ \E outcome \in ProviderOutcomes :
        Completes("historical_learning", HistoricalPatch(outcome), FALSE, FALSE)

reference_search_node ==
    /\ "reference_search" \in active
    /\ \E outcome \in ProviderOutcomes :
        Completes("reference_search", ReferencePatch(outcome), FALSE, FALSE)

DesignFailed == "Design generation failed due to error"

carlos_design_node ==
    \E out \in ModelCall("design") :
        LET response == IF out.ok THEN out.response ELSE DesignFailed
            tokens == IF out.ok THEN Chunks ELSE PlaceholderTokens(response)
        IN Completes("design",
               [design_doc |-> response,
                audit_status |-> "pending",
                conversation |-> Convo(state, "Carlos"),
                design_tokens |-> tokens], ~out.ok, FALSE)

RoneiFailed == "Ronei's design generation failed due to error"

\* a second designer that returns its design under design_doc as well
RoneiPatchWithDesignDoc(response, tokens, convo) ==
    [ronei_design |-> response,
     design_doc |-> response,
     conversation |-> convo,
     ronei_tokens |-> tokens]

\* return {"ronei_design": response, "conversation": convo, "ronei_tokens": tokens}
RoneiPatch(response, tokens, convo) ==
    [ronei_design |-> response,
     conversation |-> convo,
     ronei_tokens |-> tokens]

ronei_design_node ==
    \E out \in ModelCall("ronei_design") :
        LET response == IF out.ok THEN out.response ELSE RoneiFailed
            tokens == IF out.ok THEN Chunks ELSE PlaceholderTokens(response)
        IN Completes("ronei_design",
               RoneiPatch(response, tokens, Convo(state, "Ronei")),
               ~out.ok, FALSE)

\* <x>_data: assigned by json.loads, before the schema is tried
StructuredData(response) == IF ParsesAsJson(response) THEN "data" ELSE None

\* <x>_report: the formatted analysis; on any exception the raw answer
Report(response) ==
    IF ParsesAsJson(response) /\ MatchesSchema(response)
    THEN "formatted report" ELSE response

SecurityUnavailable == "Security analysis unavailable due to error"

security_node ==
    \E out \in ModelCall("security") :
        LET response == IF out.ok THEN out.response ELSE SecurityUnavailable
            tokens == IF out.ok THEN Chunks ELSE PlaceholderTokens(response)
        IN Completes("security",
               [security_report |-> Report(response),
                security_data |-> StructuredData(response),
                conversation |-> Convo(state, "Security Analyst"),
                security_tokens |-> tokens], ~out.ok,
               out.ok /\ ~(ParsesAsJson(response) /\ MatchesSchema(response)))

CostUnavailable == "Cost analysis unavailable due to error"

cost_node ==
    \E out \in ModelCall("cost") :
        LET response == IF out.ok THEN out.response ELSE CostUnavailable
            tokens == IF out.ok THEN Chunks ELSE PlaceholderTokens(response)
        IN Completes("cost",
               [cost_report |-> Report(response),
                cost_data |-> StructuredData(response),
                conversation |-> Convo(state, "Cost Specialist"),
                cost_tokens |-> tokens], ~out.ok,
               out.ok /\ ~(ParsesAsJson(response) /\ MatchesSchema(response)))

ReliabilityUnavailable == "Reliability analysis unavailable due to error"

reliability_node ==
    \E out \in ModelCall("reliability") :
        LET response == IF out.ok THEN out.response ELSE ReliabilityUnavailable
            tokens == IF out.ok THEN Chunks ELSE PlaceholderTokens(response)
        IN Completes("reliability",
               [reliability_report |-> Report(response),
                reliability_data |-> StructuredData(response),
                conversation |-> Convo(state, "SRE"),
                reliability_tokens |-> tokens], ~out.ok,
               out.ok /\ ~(ParsesAsJson(response) /\ MatchesSchema(response)))

\* an auditor that takes only the bare verdict for an approval
ExactlyApproved(response) == response = "APPROVED"

\* "APPROVED" in response.upper()
MentionsApproved(response) == response \in {"APPROVED", AuditUnavailable}

auditor_node ==
    \E out \in ModelCall("audit") :
        LET response == IF out.ok THEN out.response ELSE AuditUnavailable
            tokens == IF out.ok THEN Chunks ELSE PlaceholderTokens(response)
        IN Completes("audit",
               [audit_status |-> IF MentionsApproved(response)
                                 THEN "approved" ELSE "needs_revision",
                audit_report |-> response,
                conversation |-> Convo(state, "Chief Auditor"),
                audit_tokens |-> tokens], ~out.ok, FALSE)

\* str.upper() on the prefixes the answers begin with
Upper(str) ==
    CASE str = "Recommend: Carlos" -> "RECOMMEND: CARLOS"
      [] str = "recommend: ronei" -> "RECOMMEND: RONEI"
      [] str = "I recommend" -> "I RECOMMEND"
      [] OTHER -> str

\* a disambiguation that takes Ronei whenever RONEI is mentioned
TagByRoneiMention(raw) ==
    IF Upper(raw.starts) \in {"RECOMMEND: CARLOS", "RECOMMEND: RONEI"} THEN ""
    ELSE IF raw.ronei THEN "RECOMMEND: RONEI"
    ELSE "RECOMMEND: CARLOS"

\* the tag recommender_node prepends ("" when the answer starts with one)
PrependedTag(raw) ==
    IF Upper(raw.starts) \in {"RECOMMEND: CARLOS", "RECOMMEND: RONEI"} THEN ""
    ELSE IF raw.carlos /\ ~raw.ronei THEN "RECOMMEND: CARLOS"
    ELSE IF raw.ronei /\ ~raw.carlos THEN "RECOMMEND: RONEI"
    ELSE "RECOMMEND: CARLOS"

\* content: the stripped answer, a tag put in front of it where it has none
Recommendation(response) == [prepended |-> PrependedTag(response), raw |-> response]

recommender_node ==
    \E out \in ModelCall("recommender") :
        LET response == IF out.ok THEN out.response ELSE RecommendationUnavailable
            tokens == IF out.ok THEN Chunks ELSE PlaceholderTokens(response)
            content == Recommendation(response)
        IN Completes("recommender",
               [recommendation |-> content,
                conversation |-> Convo(state, "Design Recommender"),
                recommender_tokens |-> tokens], ~out.ok, FALSE)

terraform_coder_node ==
    \E out \in ModelCall("terraform_coder") :
        IF out.ok
        THEN Completes("terraform_coder",
                 [terraform_code |-> out.response,
                  conversation |-> Convo(state, "Terraform Coder"),
                  terraform_tokens |-> Chunks], FALSE, FALSE)
        ELSE Raises("terraform_coder")

\* the status terraform_validator_node reads out of the report
ParseValidationStatus(report) ==
    LET from_line ==
            IF report.status_line # ""
            THEN IF report.status_line = "NEEDS FIXES" THEN "NEEDS_FIXES"
                 ELSE IF report.status_line = "PASS WITH WARNINGS"
                      THEN "PASS_WITH_WARNINGS"
                 ELSE "PASS"
            ELSE IF report.keyword = "NEEDS FIXES" THEN "NEEDS_FIXES"
                 ELSE IF report.keyword = "PASS WITH WARNINGS"
                      THEN "PASS_WITH_WARNINGS"
                 ELSE "PASS"
    IN IF report.critical THEN "NEEDS_FIXES" ELSE from_line

terraform_validator_node ==
    \E out \in ModelCall("terraform_validator") :
        IF out.ok
        THEN Completes("terraform_validator",
                 [terraform_validation |-> out.response,
                  terraform_validation_status |-> ParseValidationStatus(out.response),
                  conversation |-> Convo(state, "Terraform Validator"),
                  terraform_validator_tokens |-> Chunks], FALSE, FALSE)
        ELSE Raises("terraform_validator")

\* a corrector that does not count its passes
SameIteration(current_iteration) == current_iteration

\* new_iteration = current_iteration + 1
NewIteration(current_iteration) == current_iteration + 1

terraform_coder_corrector_node ==
    \E out \in ModelCall("terraform_corrector") :
        IF out.ok
        THEN Completes("terraform_corrector",
                 [terraform_code |-> "corrected text",
                  terraform_correction_iteration |->
                      NewIteration(Get(state, "terraform_correction_iteration", 0)),
                  conversation |-> Convo(state, "Terraform Coder (Correction)"),
                  terraform_corrector_tokens |-> Chunks], FALSE, FALSE)
        ELSE Raises("terraform_corrector")

(***************************************************************************)
(* carlos_graph = builder.compile(): the nodes of a superstep run          *)
(* concurrently on the channels as they were when the superstep began;     *)
(* their updates are merged when all have completed, and the nodes their   *)
(* edges trigger form the next superstep.                                  *)
(***************************************************************************)
\* a superstep that ends as soon as one of its nodes has completed
FirstTaskDone == TRUE

\* every node of the superstep has completed
SuperstepDone == active = {}

EndSuperstep ==
    /\ gstatus = "running"
    /\ SuperstepDone
    /\ writes # <<>>
    /\ streamed = Len(writes)
    /\ LET next == Triggered(state, writes)
       IN /\ state' = ApplyWrites(state, writes)
          /\ step' = step + 1
          /\ writes' = <<>>
          /\ streamed' = 0
          /\ IF next = {}
               THEN gstatus' = "END" /\ active' = {}
               ELSE IF step + 1 >= RecursionLimit
                    THEN gstatus' = "out_of_steps" /\ active' = {}
                    ELSE gstatus' = "running" /\ active' = next
    /\ UNCHANGED <<req, executions, first_node, failures, malformed>>
    /\ UNCHANGED <<streamVars, poolVars, callVars>>

(***************************************************************************)
(* design_stream and its event_generator (backend/main.py).                *)
(***************************************************************************)
Requests == [text : BOOLEAN, user_answers : {"<missing>", "", "answers"}]

\* req.get("user_answers") is truthy
HasAnswers(r) == r.user_answers \notin {"<missing>", ""}

\* initial_state of design and design_stream
InitialState(r) ==
    IF HasAnswers(r)
    THEN [requirements |-> "requirements", conversation |-> EmptyConversation,
          user_answers |-> r.user_answers]
    ELSE [requirements |-> "requirements", conversation |-> EmptyConversation]

Event(type, agent, field) == [type |-> type, agent |-> agent, field |-> field]

\* token_mappings, in dict order
TokenFields ==
    <<"design_tokens", "ronei_tokens", "terraform_tokens",
      "terraform_validator_tokens", "terraform_corrector_tokens",
      "requirements_tokens", "refine_tokens", "security_tokens", "cost_tokens",
      "reliability_tokens", "audit_tokens", "recommender_tokens">>
token_mappings(token_field) ==
    CASE token_field = "design_tokens" -> "carlos"
      [] token_field = "ronei_tokens" -> "ronei_design"
      [] token_field = "terraform_tokens" -> "terraform_coder"
      [] token_field = "terraform_validator_tokens" -> "terraform_validator"
      [] token_field = "terraform_corrector_tokens" -> "terraform_corrector"
      [] token_field = "requirements_tokens" -> "requirements_gathering"
      [] token_field = "refine_tokens" -> "refine_requirements"
      [] token_field = "security_tokens" -> "security"
      [] token_field = "cost_tokens" -> "cost"
      [] token_field = "reliability_tokens" -> "reliability"
      [] token_field = "audit_tokens" -> "audit"
      [] token_field = "recommender_tokens" -> "recommender"

\* field_mappings: node name -> the field whose final content is sent
field_mappings(node_name) ==
    CASE node_name = "security" -> "security_report"
      [] node_name = "cost" -> "cost_report"
      [] node_name = "reliability" -> "reliability_report"
      [] node_name = "audit" -> "audit_report"
      [] node_name = "recommender" -> "recommendation"
      [] node_name = "terraform_coder" -> "terraform_code"
      [] node_name = "terraform_validator" -> "terraform_validation"
      [] node_name = "terraform_corrector" -> "terraform_code"
      [] node_name = "requirements_gathering" -> "refined_requirements"
      [] node_name = "refine_requirements" -> "refined_requirements"
      [] OTHER -> None

\* a token event: the agent name of the mapping and one buffered token
TokenEvent(agent_name, token) ==
    [type |-> "token", agent |-> agent_name, field |-> "", content |-> token]

\* token events that send the buffered tokens of a list last one first
RECURSIVE TokensLastFirst(_, _)
TokensLastFirst(node_output, fields) ==
    IF fields = <<>> THEN <<>>
    ELSE LET f == Head(fields)
             these == IF f \in DOMAIN node_output /\ node_output[f] # <<>>
                      THEN [i \in 1..Len(node_output[f]) |->
                               TokenEvent(token_mappings(f),
                                          node_output[f][Len(node_output[f]) + 1 - i])]
                      ELSE <<>>
         IN these \o TokensLastFirst(node_output, Tail(fields))

\* for token_field, agent_name in token_mappings.items(): one token event
\* per token of node_output[token_field]
RECURSIVE TokenEvents(_, _)
TokenEvents(node_output, fields) ==
    IF fields = <<>> THEN <<>>
    ELSE LET f == Head(fields)
             these == IF f \in DOMAIN node_output /\ node_output[f] # <<>>
                      THEN [i \in 1..Len(node_output[f]) |->
                               TokenEvent(token_mappings(f), node_output[f][i])]
                      ELSE <<>>
         IN these \o TokenEvents(node_output, Tail(fields))

\* the events of one node completion
Bracket(node_name, node_output) ==
    <<Event("agent_start", node_name, "")>>
    \o TokenEvents(node_output, TokenFields)
    \o (IF field_mappings(node_name) \in DOMAIN node_output
        THEN <<Event("field_update", "", field_mappings(node_name))>> ELSE <<>>)
    \o (IF "audit_status" \in DOMAIN node_output
        THEN <<Event("field_update", "", "audit_status")>> ELSE <<>>)
    \o <<Event("agent_complete", node_name, "")>>

\* final_state.update(node_output)
DictUpdate(d, node_output) ==
    [k \in DOMAIN d \cup DOMAIN node_output |->
        IF k \in DOMAIN node_output THEN node_output[k] ELSE d[k]]

EmptyDict == [k \in {} |-> ""]

\* summary_data of the complete event
SummaryData(fs) ==
    [design |-> Get(fs, "design_doc", ""),
     ronei_design |-> Get(fs, "ronei_design", ""),
     audit_status |-> Get(fs, "audit_status", ""),
     audit_report |-> Get(fs, "audit_report", ""),
     recommendation |-> Get(fs, "recommendation", ""),
     agent_chat |-> Get(fs, "conversation", EmptyConversation),
     security_report |-> Get(fs, "security_report", ""),
     cost_report |-> Get(fs, "cost_report", ""),
     reliability_report |-> Get(fs, "reliability_report", ""),
     terraform_code |-> Get(fs, "terraform_code", ""),
     terraform_validation |-> Get(fs, "terraform_validation", ""),
     terraform_correction_iterations |-> Get(fs, "terraform_correction_iteration", 0),
     terraform_validation_status |-> Get(fs, "terraform_validation_status", ""),
     clarification_needed |-> Get(fs, "clarification_needed", FALSE)
                              /\ ~Truthy(fs, "design_doc")]

Terminal(type, summary) == [type |-> type, summary |-> summary]
NoSummary == [error |-> TRUE]

\* event_generator starts: req["text"] raises KeyError when the body has no
\* text; otherwise carlos_graph.astream(initial_state) begins at START
StartStream ==
    /\ gen = "start"
    /\ IF ~req.text
         THEN /\ gen' = "closed"
              /\ terminal' = Append(terminal, Terminal("error", NoSummary))
              /\ emitted' = emitted + 1
              /\ UNCHANGED <<state, gstatus, active>>
         ELSE /\ gen' = "streaming"
              /\ state' = InitialState(req)
              /\ gstatus' = "running"
              /\ active' = {should_gather_requirements(InitialState(req))}
              /\ UNCHANGED <<terminal, emitted>>
    /\ UNCHANGED <<req, step, writes, streamed, executions, first_node, failures, malformed,
                   final_state, bracket>>
    /\ UNCHANGED <<poolVars, callVars>>

\* one pass of `for node_name, node_output in event.items()`
EmitUpdate ==
    /\ gen = "streaming"
    /\ streamed < Len(writes)
    /\ LET w == writes[streamed + 1]
       IN /\ bracket' = Bracket(w.node, w.patch)
          /\ emitted' = emitted + Len(Bracket(w.node, w.patch))
          /\ final_state' = DictUpdate(final_state, w.patch)
    /\ streamed' = streamed + 1
    /\ UNCHANGED <<req, state, gstatus, step, active, writes, executions,
                   first_node, failures, malformed, gen,
                   terminal>>
    /\ UNCHANGED <<poolVars, callVars>>

\* astream is exhausted: the complete event
EmitComplete ==
    /\ gen = "streaming"
    /\ gstatus = "END"
    /\ terminal' = Append(terminal, Terminal("complete", SummaryData(final_state)))
    /\ emitted' = emitted + 1
    /\ gen' = "closed"
    /\ UNCHANGED <<graphVars, final_state, bracket>>
    /\ UNCHANGED <<poolVars, callVars>>

\* an except block that sends the error event and goes on
EmitErrorAndGoOn ==
    /\ gen = "streaming"
    /\ gstatus \in {"raised", "out_of_steps"}
    /\ terminal' = Append(terminal, Terminal("error", NoSummary))
    /\ emitted' = emitted + 1
    /\ UNCHANGED <<graphVars, gen, final_state, bracket>>
    /\ UNCHANGED <<poolVars, callVars>>

\* astream raises (a node's exception, GraphRecursionError): the error event
EmitError ==
    /\ gen = "streaming"
    /\ gstatus \in {"raised", "out_of_steps"}
    /\ terminal' = Append(terminal, Terminal("error", NoSummary))
    /\ emitted' = emitted + 1
    /\ gen' = "closed"
    /\ UNCHANGED <<graphVars, final_state, bracket>>
    /\ UNCHANGED <<poolVars, callVars>>

GraphInit ==
    /\ req \in Requests
    /\ state = EmptyDict
    /\ gstatus = "idle"
    /\ step = 0
    /\ active = {}
    /\ writes = <<>>
    /\ streamed = 0
    /\ executions = [n \in Nodes |-> 0]
    /\ first_node = None
    /\ failures = 0
    /\ malformed = 0
    /\ gen = "start"
    /\ final_state = EmptyDict
    /\ bracket = <<>>
    /\ emitted = 0
    /\ terminal = <<>>

Next ==
    \/ StartStream
    \/ requirements_gathering_node
    \/ refine_requirements_node
    \/ historical_learning_node
    \/ reference_search_node
    \/ carlos_design_node
    \/ ronei_design_node
    \/ security_node
    \/ cost_node
    \/ reliability_node
    \/ auditor_node
    \/ recommender_node
    \/ terraform_coder_node
    \/ terraform_validator_node
    \/ terraform_coder_corrector_node
    \/ EndSuperstep
    \/ EmitUpdate
    \/ EmitComplete
    \/ EmitError

vars == <<poolVars, graphVars, streamVars, callVars>>

\* no function is called on its own
NoCall == [fn |-> "none", arg |-> [none |-> TRUE]]

Init == PoolInit /\ GraphInit /\ call = NoCall /\ result = <<>>

\* one run of the pipeline behind /design-stream; the pool is left aside
Spec == Init /\ [][Next]_vars

\* the callers of the pool; no run of the pipeline
NoRequest == Init /\ req = [text |-> FALSE, user_answers |-> "<missing>"]

PoolSpec == NoRequest /\ [][PoolNext]_vars


\* asyncio.Lock wakes its waiters in FIFO order and a holder of the lock runs
\* its block without awaiting anything: the lock blocks are fair.  Nothing
\* makes a caller's body return.
PoolFairness ==
    \A l \in Leases :
        /\ SF_vars(AcquireLock(l))
        /\ WF_vars(ScanAndMark(l))
        /\ WF_vars(Discard(l))

FairPoolSpec == PoolSpec /\ PoolFairness

\* the pool with a caller that reads the statistics at any moment
StatsNext ==
    \/ ReadPoolStats
    \/ PoolNext

StatsSpec == NoRequest /\ [][StatsNext]_vars

(***************************************************************************)
(* The functions of the backend called on their own.                       *)
(***************************************************************************)
\* the largest terraform_correction_iteration a state is given
MaxIteration == 3

\* states terraform_validation_router is called on: the status (or none), the
\* iteration counter (or none) and a key the router does not read
RouterArgs ==
    {a \in [status : {"<missing>", "PASS", "PASS_WITH_WARNINGS", "NEEDS_FIXES",
                      "UNKNOWN", "needs_fixes"},
            has_iteration : BOOLEAN,
            iteration : 0..MaxIteration,
            audit_status : {"<missing>", "approved"}] :
        ~a.has_iteration => a.iteration = 0}

\* the CarlosState dict of a router argument
RouterState(a) ==
    LET keys == (IF a.status # "<missing>" THEN {"terraform_validation_status"} ELSE {})
                \cup (IF a.has_iteration THEN {"terraform_correction_iteration"} ELSE {})
                \cup (IF a.audit_status # "<missing>" THEN {"audit_status"} ELSE {})
    IN [k \in keys |->
           CASE k = "terraform_validation_status" -> a.status
             [] k = "terraform_correction_iteration" -> a.iteration
             [] OTHER -> a.audit_status]

\* raw recommender answers: the prefix of the stripped answer and the names
\* it mentions; an answer that begins with a tag mentions the tag's name
RecommenderArgs ==
    {raw \in [starts : {"RECOMMEND: CARLOS", "Recommend: Carlos", "RECOMMEND: RONEI",
                        "recommend: ronei", "I recommend", ""},
              carlos : BOOLEAN, ronei : BOOLEAN] :
        /\ Upper(raw.starts) = "RECOMMEND: CARLOS" => raw.carlos
        /\ Upper(raw.starts) = "RECOMMEND: RONEI" => raw.ronei}

(***************************************************************************)
(* should_cache (backend/cache.py).  A requirements string is given by     *)
(* what should_cache reads of it: whether it is empty or whitespace only,  *)
(* the number of words split() finds, and the marker-like fragments that   *)
(* occur in it, in the letter case they are written in.                    *)
(***************************************************************************)
\* the most words a requirements string has
MaxWords == 51
\* the most marker-like fragments a requirements string contains
MaxFragments == 1

\* specific_indicators of the branch word_count < 25
FullIndicators ==
    {"my ", "our ", "company", "project", ".com", ".io", ".org", ".net",
     "client", "customer", "acme", "contoso", "$", "million"}

\* specific_indicators of the branch 25 <= word_count < 50
ReducedIndicators == {"my ", "our ", "company", "client", "$"}

\* fragments a text may contain: the indicators, some of them capitalised
Fragments == FullIndicators \cup {"COMPANY", "Client", "My ", "Project"}

\* a lower() that leaves the letter case as it is
LowerKeepsCase(str) == str

\* str.lower() on the fragments and words of the requirements
Lower(str) ==
    CASE str = "COMPANY" -> "company"
      [] str = "Client" -> "client"
      [] str = "My " -> "my "
      [] str = "Project" -> "project"
      [] str = "Web" -> "web"
      [] str = "WEB" -> "web"
      [] str = "App" -> "app"
      [] str = "QUOTA" -> "quota"
      [] OTHER -> str

\* the sets of at most n fragments
RECURSIVE FragmentSets(_)
FragmentSets(n) ==
    IF n = 0 THEN {{}}
    ELSE LET fewer == FragmentSets(n - 1)
         IN fewer \cup {some \cup {f} : some \in fewer, f \in Fragments}

RequirementsArgs ==
    {r \in [kind : {"empty", "whitespace", "text"},
            word_count : 0..MaxWords,
            fragments : FragmentSets(MaxFragments)] :
        /\ r.kind = "text" <=> r.word_count >= 1
        /\ r.kind # "text" => r.fragments = {}}

\* `indicator in requirements_lower` for some indicator of the list
AnyIndicator(requirements, specific_indicators) ==
    \E indicator \in specific_indicators :
        indicator \in {Lower(f) : f \in requirements.fragments}

\* RedisDesignCache.should_cache
RedisShouldCache(requirements) ==
    IF requirements.kind \in {"empty", "whitespace"} THEN FALSE
    ELSE LET word_count == requirements.word_count
         IN IF word_count < 25
            THEN ~AnyIndicator(requirements, FullIndicators)
            ELSE IF word_count >= 25 /\ word_count < 50
                 THEN ~AnyIndicator(requirements, ReducedIndicators)
                 ELSE FALSE

\* InMemoryDesignCache.should_cache
InMemoryShouldCache(requirements) ==
    IF requirements.kind \in {"empty", "whitespace"} THEN FALSE
    ELSE LET word_count == requirements.word_count
         IN IF word_count < 25
            THEN ~AnyIndicator(requirements, FullIndicators)
            ELSE IF word_count >= 25 /\ word_count < 50
                 THEN ~AnyIndicator(requirements, ReducedIndicators)
                 ELSE FALSE

(***************************************************************************)
(* The cache-hit branch of design_stream: the cached summary is replayed   *)
(* by stream_cached_design, no graph is started.                           *)
(***************************************************************************)
\* field_order: (field of the cached design, agent name of its events)
field_order ==
    <<<<"design", "carlos">>,
      <<"ronei_design", "ronei_design">>,
      <<"security_report", "security">>,
      <<"cost_report", "cost">>,
      <<"reliability_report", "reliability">>,
      <<"audit_report", "audit">>,
      <<"recommendation", "recommender">>,
      <<"terraform_code", "terraform_coder">>,
      <<"terraform_validation", "terraform_validator">>>>

ReplayedFields == {field_order[i][1] : i \in 1..Len(field_order)}

\* the cached designs: the summaries cache.set has stored, as far as the
\* replay reads them; an entry is stored only with a non-empty design
CachedDesigns ==
    {d \in [ReplayedFields -> {"", "text"}] : d["design"] # ""}

\* an event of the replay; every one carries cached: True
CachedEvent(type, agent, field, content) ==
    [type |-> type, agent |-> agent, field |-> field, content |-> content,
     cached |-> TRUE]

\* the replay sends the events of every field the cached design has a key for
FieldPresent(design, field) == field \in DOMAIN design

\* if field in design and design[field]
FieldReplayed(design, field) == field \in DOMAIN design /\ design[field] # ""

\* the body of the loop over field_order
RECURSIVE Replay(_, _)
Replay(design, order) ==
    IF order = <<>> THEN <<>>
    ELSE LET field == Head(order)[1]
             agent == Head(order)[2]
             these == IF FieldReplayed(design, field)
                      THEN <<CachedEvent("agent_start", agent, "", ""),
                             CachedEvent("field_update", "", field, design[field]),
                             CachedEvent("agent_complete", agent, "", "")>>
                      ELSE <<>>
         IN these \o Replay(design, Tail(order))

\* the events stream_cached_design yields, in order
stream_cached_design(design) ==
    <<CachedEvent("cache_hit", "", "", "")>>
    \o Replay(design, field_order)
    \o <<[type |-> "complete", cached |-> TRUE, summary |-> design]>>

(***************************************************************************)
(* design_stream before and after the run: document context and cache.     *)
(***************************************************************************)
\* document tasks one request refers to at most
MaxTasks == 2

\* what get_task(task_id) finds for a task id of the request
TaskStates == {"not found", "other user", "processing", "completed"}

\* document_task_ids of a request: absent or empty is <<>>
TaskIdLists == UNION {[1..n -> TaskStates] : n \in 0..MaxTasks}

\* the streaming requests as far as the cache is concerned: answers given,
\* the referenced tasks, whether the cache holds an entry under the key of
\* the request, whether the run ends with a design should_cache accepts (a
\* run without answers ends after requirements_gathering, without design)
CacheRequests ==
    {r \in [has_answers : BOOLEAN, document_task_ids : TaskIdLists,
            cached : BOOLEAN, cacheable : BOOLEAN] :
        r.cacheable => r.has_answers}

\* _build_document_context: tasks that are missing, of another user or not
\* completed are skipped; with no part left the context is ""
build_document_context(task_ids) ==
    IF task_ids = <<>> THEN ""
    ELSE IF \E i \in 1..Len(task_ids) : task_ids[i] = "completed"
         THEN "document context" ELSE ""

\* if not req.get("user_answers") and not document_context
CacheConsulted(r, document_context) ==
    ~r.has_answers /\ document_context = ""

\* if cache_key and not clarification_needed and summary_data.get("design")
StoreCondition(r, summary) ==
    /\ CacheConsulted([has_answers |-> HasAnswers(r)], "")
    /\ ~summary.clarification_needed
    /\ summary.design # ""

\* design_stream: the lookup before the run and the write after it
DesignStreamCache(r) ==
    LET document_context ==
            IF r.document_task_ids # <<>>
            THEN build_document_context(r.document_task_ids) ELSE ""
        consulted == CacheConsulted(r, document_context)
        hit == consulted /\ r.cached
    IN [document_context |-> document_context,
        cache_key |-> IF consulted THEN "key" ELSE None,
        lookup |-> consulted,
        served |-> IF hit THEN "cache" ELSE "pipeline",
        written |-> consulted /\ ~hit /\ r.cacheable]

\* the largest size a pool is created with
MaxPoolSize == 6

\* LLMPool(size).initialize(): the pools after the three warm-up loops
WarmedPools(n) ==
    [k \in Kinds |-> [i \in 1..PoolCapacity(k, n) |-> KindLLM(k)]]

(***************************************************************************)
(* generate_cache_key of both cache implementations.                       *)
(***************************************************************************)
\* requirements texts: their words, separated by single spaces, or (padded)
\* by runs of whitespace with whitespace in front and at the end
KeyTexts ==
    [words : {<<"web">>, <<"WEB">>, <<"web", "app">>, <<"Web", "App">>,
              <<"app", "web">>},
     padded : BOOLEAN]

\* the settings of a request; None is a key that is absent
KeySettings ==
    [scenario : {None, "startup"},
     priorities : [cost_performance : {None, "cost"},
                   compliance : {None, "hipaa"},
                   reliability : {None, "high"}]]

\* a key over the text as it was typed
NotNormalized(requirements) == requirements

\* " ".join(requirements.lower().strip().split()): the lower-cased words,
\* one space between them
Normalized(requirements) ==
    [i \in 1..Len(requirements.words) |-> Lower(requirements.words[i])]

\* cache_input
CacheInput(requirements, settings) ==
    [requirements |-> Normalized(requirements),
     scenario |-> settings.scenario,
     cost_performance |-> settings.priorities.cost_performance,
     compliance |-> settings.priorities.compliance]

\* hashlib.sha256(json.dumps(cache_input, sort_keys=True)).hexdigest()[:16]:
\* a digest that tells the inputs apart
Digest(cache_input) == [sha256 |-> cache_input]

\* RedisDesignCache.generate_cache_key
RedisCacheKey(requirements, settings) ==
    [prefix |-> "carlos:design:", hash_key |-> Digest(CacheInput(requirements, settings))]

\* InMemoryDesignCache.generate_cache_key
InMemoryCacheKey(requirements, settings) ==
    Digest(CacheInput(requirements, settings))

\* the two requests whose keys are compared
KeyRequests == [text : KeyTexts, settings : KeySettings]

(***************************************************************************)
(* Document tasks (backend/document_tasks.py) and their readers in         *)
(* backend/main.py: _build_document_context and get_document_status.       *)
(***************************************************************************)
TaskIds == {"t1", "t2"}
Users == {"alice", "bob"}

FileOf(task_id) == IF task_id = "t1" THEN "t1.pdf" ELSE "t2.pdf"
TextOf(task_id) == IF task_id = "t1" THEN "text of t1" ELSE "text of t2"

\* the DocumentTask objects create_task and _process_document_background
\* leave under one id: update_status keeps an extracted_text once set and
\* resets the diagram fields on every call, so a task that failed after its
\* update to COMPLETED still holds its text
DocumentTasks(task_id) ==
    {t \in [task_id : {task_id}, filename : {FileOf(task_id)}, username : Users,
            status : {"pending", "processing", "completed", "failed"},
            extracted_text : {None, TextOf(task_id)},
            diagrams_found : {0, 1},
            diagram_summary : {None, "diagram summary"}] :
        /\ t.status \in {"pending", "processing"} => t.extracted_text = None
        /\ t.status = "completed" => t.extracted_text # None
        /\ t.status # "completed" => t.diagrams_found = 0
        /\ t.diagrams_found = 0 <=> t.diagram_summary = None}

\* _tasks: the tasks stored under some of the ids
TaskStores ==
    UNION {{tasks \in [ids -> UNION {DocumentTasks(id) : id \in ids}] :
               \A id \in ids : tasks[id].task_id = id} : ids \in SUBSET TaskIds}

\* a context that skips unknown ids only
SkipUnknownOnly(task_id, username, tasks) == task_id \notin DOMAIN tasks

\* _build_document_context: if not task / task.username != username /
\* task.status != TaskStatus.COMPLETED: continue
Skipped(task_id, username, tasks) ==
    IF task_id \notin DOMAIN tasks THEN TRUE
    ELSE IF tasks[task_id].username # username THEN TRUE
    ELSE tasks[task_id].status # "completed"

\* doc_context of one task: its filename, its text, its diagram analysis
DocContext(task) ==
    [document |-> task.filename,
     content |-> IF task.extracted_text # None THEN task.extracted_text ELSE None,
     diagram_analysis |->
         IF task.diagrams_found > 0 /\ task.diagram_summary # None
         THEN task.diagram_summary ELSE None]

\* context_parts after the loop over task_ids
RECURSIVE ContextParts(_, _, _)
ContextParts(task_ids, username, tasks) ==
    IF task_ids = <<>> THEN <<>>
    ELSE LET task_id == Head(task_ids)
             rest == ContextParts(Tail(task_ids), username, tasks)
         IN IF Skipped(task_id, username, tasks) THEN rest
            ELSE <<DocContext(tasks[task_id])>> \o rest

\* _build_document_context(task_ids, username): "" (empty) without task ids
\* or without parts, else the header, the parts and the requirements heading
DocumentContext(task_ids, username, tasks) ==
    IF task_ids = <<>> THEN [empty |-> TRUE, context_parts |-> <<>>]
    ELSE LET context_parts == ContextParts(task_ids, username, tasks)
         IN [empty |-> context_parts = <<>>, context_parts |-> context_parts]

\* DocumentTask.to_dict
to_dict(task) ==
    [task_id |-> task.task_id,
     filename |-> task.filename,
     status |-> task.status,
     extracted_text |->
         IF task.status = "completed" THEN task.extracted_text ELSE None]
    @@ IF task.status = "completed"
       THEN [diagrams_found |-> task.diagrams_found,
             diagram_summary |-> task.diagram_summary]
       ELSE <<>>

\* get_document_status(task_id, current_user)
get_document_status(task_id, username, tasks) ==
    IF task_id \notin DOMAIN tasks THEN [status_code |-> 404]
    ELSE IF tasks[task_id].username # username THEN [status_code |-> 403]
    ELSE [status_code |-> 200, body |-> to_dict(tasks[task_id])]

\* the task ids of a request, the requesting user, the stored tasks
DocumentArgs ==
    [task_ids : UNION {[1..n -> TaskIds] : n \in 0..MaxTasks},
     username : Users, tasks : TaskStores]

StatusArgs == [task_id : TaskIds, username : Users, tasks : TaskStores]

(***************************************************************************)
(* retry_with_backoff (backend/middleware/llm_throttle.py).  A call of the  *)
(* wrapper is given by max_retries and by what the wrapped function does   *)
(* at each of its successive invocations: it returns, or raises an         *)
(* exception whose message holds some fragments.  The delays of            *)
(* asyncio.sleep between attempts are not modelled.                        *)
(***************************************************************************)
\* the largest max_retries a wrapper is built with
MaxRetries == 2

\* fragments of the message of an exception, in the case they are written in
ErrorFragments ==
    {"rate_limit", "429", "too many requests", "quota", "QUOTA", "timeout"}

\* what one invocation of the wrapped function does; "BaseException" is an
\* exception outside Exception (a cancellation)
Outcomes ==
    {[kind |-> "return", message |-> {}]}
    \cup {[kind |-> "Exception", message |-> {f}] : f \in ErrorFragments}
    \cup {[kind |-> "BaseException", message |-> {"429"}]}

\* the outcomes of more invocations than any wrapper is allowed
RetryArgs ==
    UNION {[max_retries : {r}, outcomes : [1..(r + 2) -> Outcomes]] :
              r \in 0..MaxRetries}

\* error_str = str(e).lower()
ErrorStr(e) == {Lower(f) : f \in e.message}

\* a test that takes every error for a rate limit error
AnyErrorIsRateLimit(error_str) == TRUE

\* is_rate_limit
IsRateLimit(error_str) ==
    \/ "rate_limit" \in error_str
    \/ "429" \in error_str
    \/ "too many requests" \in error_str
    \/ "quota" \in error_str

\* raise last_exception, after the loop: last_exception is None when the
\* loop made no attempt
NoException == [kind |-> "TypeError", message |-> {}]

\* wrapper: for attempt in range(max_retries + 1), from `attempt` on
RECURSIVE RetryLoop(_, _, _)
RetryLoop(max_retries, outcomes, attempt) ==
    IF attempt >= max_retries + 1
    THEN [invocations |-> attempt, raised |-> TRUE,
          value |-> IF attempt = 0 THEN NoException ELSE outcomes[attempt]]
    ELSE LET e == outcomes[attempt + 1]
         IN IF e.kind = "return"
            THEN [invocations |-> attempt + 1, raised |-> FALSE, value |-> e]
            ELSE IF e.kind = "BaseException"
            THEN [invocations |-> attempt + 1, raised |-> TRUE, value |-> e]
            ELSE IF IsRateLimit(ErrorStr(e)) /\ attempt < max_retries
            THEN RetryLoop(max_retries, outcomes, attempt + 1)
            ELSE [invocations |-> attempt + 1, raised |-> TRUE, value |-> e]

\* one call of a function wrapped by retry_with_backoff(max_retries)
wrapper(a) == RetryLoop(a.max_retries, a.outcomes, 0)

\* the functions called on their own
Functions ==
    {"should_cache", "terraform_validation_router", "recommendation",
     "stream_cached_design", "design_stream_cache", "initialize",
     "generate_cache_key", "context_node", "retry_with_backoff",
     "build_document_context", "get_document_status"}

\* the arguments one of them is called with
Args(fn) ==
    CASE fn = "should_cache" -> RequirementsArgs
      [] fn = "terraform_validation_router" -> RouterArgs
      [] fn = "recommendation" ->
             RecommenderArgs \cup {RecommendationUnavailable}
      [] fn = "stream_cached_design" -> CachedDesigns
      [] fn = "design_stream_cache" -> CacheRequests
      [] fn = "initialize" -> {[size |-> n] : n \in 1..MaxPoolSize}
      [] fn = "generate_cache_key" ->
             {[a |-> a, b |-> b] : a \in KeyRequests, b \in KeyRequests}
      [] fn = "context_node" ->
             [provider : {"historical", "reference"},
              outcome : ProviderOutcomes]
      [] fn = "retry_with_backoff" -> RetryArgs
      [] fn = "build_document_context" -> DocumentArgs
      [] fn = "get_document_status" -> StatusArgs

\* the calls of one function
Calls(fn) == {[fn |-> fn, arg |-> a] : a \in Args(fn)}

\* the conditional edge of terraform_validator on a state of its own
CallRouter ==
    /\ call.fn = "terraform_validation_router"
    /\ result = <<>>
    /\ result' = <<ValidatorPathMap(terraform_validation_router(RouterState(call.arg)))>>
    /\ UNCHANGED <<call, poolVars, graphVars, streamVars>>

\* the normalisation of recommender_node on an answer of its own
CallRecommendation ==
    /\ call.fn = "recommendation"
    /\ result = <<>>
    /\ result' = <<Recommendation(call.arg)>>
    /\ UNCHANGED <<call, poolVars, graphVars, streamVars>>

\* should_cache of both cache implementations on one requirements string
CallShouldCache ==
    /\ call.fn = "should_cache"
    /\ result = <<>>
    /\ result' = <<[redis |-> RedisShouldCache(call.arg),
                    memory |-> InMemoryShouldCache(call.arg)]>>
    /\ UNCHANGED <<call, poolVars, graphVars, streamVars>>

\* design_stream on a cache hit: the response is the replay of the cached
\* design; get_llm and carlos_graph are not reached
CachedDesignStream ==
    /\ call.fn = "stream_cached_design"
    /\ result = <<>>
    /\ result' = <<stream_cached_design(call.arg)>>
    /\ UNCHANGED <<call, poolVars, graphVars, streamVars>>

\* historical_learning_node or reference_search_node on one outcome of its
\* provider: what the provider call returns, and the patch of the node
CallContextNode ==
    /\ call.fn = "context_node"
    /\ result = <<>>
    /\ result' = <<IF call.arg.provider = "historical"
                   THEN [provided |-> get_historical_context(call.arg.outcome),
                         patch |-> HistoricalPatch(call.arg.outcome)]
                   ELSE [provided |-> get_reference_context(call.arg.outcome),
                         patch |-> ReferencePatch(call.arg.outcome)]>>
    /\ UNCHANGED <<call, poolVars, graphVars, streamVars>>

\* _build_document_context on the task ids of one request
CallBuildDocumentContext ==
    /\ call.fn = "build_document_context"
    /\ result = <<>>
    /\ result' = <<DocumentContext(call.arg.task_ids, call.arg.username,
                                   call.arg.tasks)>>
    /\ UNCHANGED <<call, poolVars, graphVars, streamVars>>

\* GET /documents/{task_id}
CallGetDocumentStatus ==
    /\ call.fn = "get_document_status"
    /\ result = <<>>
    /\ result' = <<get_document_status(call.arg.task_id, call.arg.username,
                                       call.arg.tasks)>>
    /\ UNCHANGED <<call, poolVars, graphVars, streamVars>>

\* one call of a wrapped function
CallWrapper ==
    /\ call.fn = "retry_with_backoff"
    /\ result = <<>>
    /\ result' = <<wrapper(call.arg)>>
    /\ UNCHANGED <<call, poolVars, graphVars, streamVars>>

\* design_stream on one request, as far as the cache is concerned
CallDesignStreamCache ==
    /\ call.fn = "design_stream_cache"
    /\ result = <<>>
    /\ result' = <<DesignStreamCache(call.arg)>>
    /\ UNCHANGED <<call, poolVars, graphVars, streamVars>>

\* the warm-up of a pool of the given size, read with get_pool_stats
CallInitialize ==
    /\ call.fn = "initialize"
    /\ result = <<>>
    /\ result' = <<[k \in Kinds |-> [total |-> Len(WarmedPools(call.arg.size)[k])]]>>
    /\ UNCHANGED <<call, poolVars, graphVars, streamVars>>

\* generate_cache_key of both implementations on two requests
CallGenerateCacheKey ==
    /\ call.fn = "generate_cache_key"
    /\ result = <<>>
    /\ result' =
          <<[r \in {"a", "b"} |->
               [redis |-> RedisCacheKey(call.arg[r].text, call.arg[r].settings),
                memory |-> InMemoryCacheKey(call.arg[r].text, call.arg[r].settings)]]>>
    /\ UNCHANGED <<call, poolVars, graphVars, streamVars>>

CallNext ==
    \/ CallBuildDocumentContext
    \/ CallGetDocumentStatus
    \/ CallWrapper
    \/ CallContextNode
    \/ CallGenerateCacheKey
    \/ CallInitialize
    \/ CallDesignStreamCache
    \/ CallRouter
    \/ CallShouldCache
    \/ CallRecommendation
    \/ CachedDesignStream

CallInit ==
    /\ PoolInit /\ GraphInit
    /\ req = [text |-> FALSE, user_answers |-> "<missing>"]
    /\ \E fn \in Functions : call \in Calls(fn)
    /\ result = <<>>

CallSpec == CallInit /\ [][CallNext]_vars

(***************************************************************************)
(* Properties.                                                             *)
(***************************************************************************)
RunStopped == gstatus \in {"END", "raised", "out_of_steps"}

\* every write of terraform_correction_iteration so far: the merged channel
\* and the updates of the current superstep
Iterations ==
    {Get(state, "terraform_correction_iteration", 0)}
    \cup {Get(writes[i].patch, "terraform_correction_iteration", 0) : i \in 1..Len(writes)}

\* C1: whatever the validator reports, terraform_corrector runs at most twice
\* in a run and terraform_correction_iteration never exceeds 2.
C1_CorrectionLoopBounded ==
    /\ executions["terraform_corrector"] <= 2
    /\ \A i \in Iterations : i <= 2

\* the validator reported NEEDS_FIXES three times and the run ended at the cap
C1_Witness ==
    /\ gstatus = "END"
    /\ executions["terraform_corrector"] = 2
    /\ executions["terraform_validator"] = 3
    /\ Get(state, "terraform_validation_status", "PASS") = "NEEDS_FIXES"

AllExited == \A l \in Leases : lpc[l] = "idle"

\* C2: once every lease has been exited, no index is marked in use and
\* available == total == K, for each of the three pools.
C2_NoLeakedLease ==
    AllExited =>
        \A k \in Kinds :
            /\ in_use[k] = {}
            /\ get_pool_stats[k].available = get_pool_stats[k].total
            /\ get_pool_stats[k].total = IF initialized THEN PoolCapacity(k, size) ELSE 0

\* all leases exited after an overflow lease and a lease whose body raised
C2_Witness ==
    /\ AllExited
    /\ initialized
    /\ poolHist.overflow
    /\ poolHist.raised

\* the lease of caller l is open on a pooled handle
HoldsPooled(l) == lpc[l] \in {"body", "finally", "discarding"} /\ idx[l] # NoIdx

\* C3: two open leases of one kind never wrap the same pool index.
C3_ExclusiveHandle ==
    \A l1, l2 \in Leases :
        (l1 # l2 /\ HoldsPooled(l1) /\ HoldsPooled(l2) /\ lkind[l1] = lkind[l2])
            => idx[l1] # idx[l2]

\* two callers inside their bodies on two pooled handles of one kind
C3_Witness ==
    \E l1, l2 \in Leases :
        /\ l1 # l2
        /\ lpc[l1] = "body" /\ lpc[l2] = "body"
        /\ lkind[l1] = lkind[l2]
        /\ idx[l1] # NoIdx /\ idx[l2] # NoIdx

\* C4: a caller of get_*_llm gets a handle of the kind's configuration without
\* any lease being released: its wait ends though no body ever returns, and
\* with every pooled handle in use the handle is a temporary one.
C4_AcquireNeverWaitsForRelease ==
    /\ \A l \in Leases : (lpc[l] = "waiting") ~> (lpc[l] = "body")
    /\ [](\A l \in Leases :
             lpc[l] = "body" =>
                 /\ llm[l] = KindLLM(lkind[l])
                 /\ idx[l] = NoIdx \/ idx[l] \in in_use[lkind[l]])

\* more callers than handles: every pooled handle of the kind is in use and a
\* caller is inside its body on a temporary handle
C4_Witness ==
    \E l \in Leases :
        /\ lpc[l] = "body"
        /\ idx[l] = NoIdx
        /\ llm[l] = KindLLM(lkind[l])
        /\ Len(pool[lkind[l]]) > 0
        /\ in_use[lkind[l]] = PoolIndices(lkind[l])
        /\ \E m \in Leases : m # l /\ lpc[m] = "body" /\ lkind[m] = lkind[l]

\* C5: a run without user_answers executes requirements_gathering, reaches END
\* with clarification_needed set, and runs neither design.
C5_NoAnswersEndsInClarification ==
    (~HasAnswers(req) /\ RunStopped) =>
        /\ gstatus = "END"
        /\ executions["requirements_gathering"] = 1
        /\ Get(state, "clarification_needed", FALSE) = TRUE
        /\ executions["design"] = 0
        /\ executions["ronei_design"] = 0

\* C6: with non-empty user_answers requirements_gathering never runs: the
\* first node that runs is refine_requirements.
C6_AnswersBypassGathering ==
    HasAnswers(req) =>
        /\ executions["requirements_gathering"] = 0
        /\ first_node \in {None, "refine_requirements"}

C6_Witness ==
    /\ HasAnswers(req)
    /\ first_node = "refine_requirements"
    /\ gstatus = "END"

\* C7: a model-call failure never leaves a node as an exception.
C7_ModelFailureStaysInStep == gstatus # "raised"

\* C8: a run that has stopped has stopped at END, even when no model call
\* failed at all.
C8_RunReachesEnd == (RunStopped /\ failures = 0) => gstatus = "END"

\* the updates of the three reviewers have been merged
ReviewersMerged == gstatus = "running" /\ active = {"audit"} /\ writes = <<>>

\* C9: after the design fan-out and the reviewer fan-out the transcript holds
\* the entries of Carlos, Ronei, Security Analyst, Cost Specialist and SRE,
\* and its length depends on the review round only, not on the order in which
\* the branches completed.
C9_TranscriptOrderIndependent ==
    ReviewersMerged =>
        /\ \A r \in {"Carlos", "Ronei", "Security Analyst", "Cost Specialist", "SRE"} :
               state["conversation"][r] >= 1
        /\ ConvLen(state["conversation"]) = 24 * 16 ^ executions["audit"] - 1

\* the second review round, after one rejected audit
C9_Witness == ReviewersMerged /\ executions["audit"] = 1

\* C10: a live stream ends with exactly one terminal event, complete or error,
\* nothing is sent after it and nothing sent before it is taken back.
C10_OneTerminalEvent ==
    /\ [](/\ Len(terminal) <= 1
          /\ gen = "closed" <=> Len(terminal) = 1
          /\ \A i \in 1..Len(terminal) : terminal[i].type \in {"complete", "error"}
          /\ gen # "closed" => ENABLED Next)
    /\ [][/\ emitted' >= emitted
          /\ terminal # <<>> => UNCHANGED <<terminal, emitted, bracket, final_state>>
          /\ terminal' # terminal =>
                /\ emitted' = emitted + 1
                /\ terminal'[1].type = "complete" <=> gstatus = "END"]_vars

\* an error event after the events of the nodes that had completed
C10_Witness ==
    /\ gen = "closed"
    /\ terminal # <<>>
    /\ terminal[1].type = "error"
    /\ emitted > 1

\* the complete event, once sent
Completed == terminal # <<>> /\ terminal[1].type = "complete"

\* C11: the summary of the complete event equals, field by field (transcript
\* included), the summary of the final state carlos_graph returns at END.
C11_SummaryIsFinalState ==
    Completed => terminal[1].summary = SummaryData(state)

\* a review round is in progress: a reviewer has been scheduled
ReviewRound == gstatus = "running" /\ active \cap Reviewers # {}

\* C12: after an audit that did not approve, both design and ronei_design
\* run again before the reviewers run again: in every review round each of
\* the two designs has run once more than the auditor.
C12_RejectedAuditRerunsBothDesigns ==
    ReviewRound =>
        /\ executions["design"] = executions["audit"] + 1
        /\ executions["ronei_design"] = executions["audit"] + 1

\* the nodes behind the approved branch of the audit edge
AfterApproval ==
    {"recommender", "terraform_coder", "terraform_validator", "terraform_corrector"}

\* C13: recommender, terraform_coder, terraform_validator and
\* terraform_corrector are scheduled, and have run, only in a state whose
\* audit_status is approved.
C13_RecommenderOnlyWhenApproved ==
    \A n \in AfterApproval :
        (n \in active \/ executions[n] > 0)
            => Get(state, "audit_status", "absent") = "approved"

\* the recommender is scheduled after one rejected and one approving audit
C13_Witness ==
    /\ gstatus = "running"
    /\ "recommender" \in active
    /\ executions["audit"] = 2
    /\ state["audit_status"] = "approved"

\* C14: security, cost and reliability start only after both design and
\* ronei_design have completed: while a reviewer is scheduled both designs
\* have run, both design documents are in the state and no design is running.
C14_ReviewersAfterBothDesigns ==
    ReviewRound =>
        /\ executions["design"] >= 1 /\ executions["ronei_design"] >= 1
        /\ "design_doc" \in DOMAIN state /\ "ronei_design" \in DOMAIN state
        /\ active \cap {"design", "ronei_design"} = {}

\* the first review round begins, the three reviewers scheduled together
C14_Witness ==
    /\ ReviewRound
    /\ active = Reviewers
    /\ writes = <<>>
    /\ executions["audit"] = 0

\* C15: audit starts only after security, cost and reliability have all
\* completed in the current review round, and runs once per review round:
\* while audit is scheduled it is scheduled alone and every reviewer has run
\* once more than the auditor; the auditor never runs more often than a
\* reviewer, nor a reviewer more than once more than the auditor.
C15_AuditOncePerReviewRound ==
    /\ "audit" \in active =>
          /\ active = {"audit"}
          /\ \A r \in Reviewers : executions[r] = executions["audit"] + 1
    /\ \A r \in Reviewers :
          /\ executions["audit"] <= executions[r]
          /\ executions[r] <= executions["audit"] + 1

\* the auditor has run in two review rounds, each reviewer twice
C15_Witness ==
    /\ executions["audit"] = 2
    /\ \A r \in Reviewers : executions[r] = 2
    /\ "audit" \notin active

\* the call of function fn has returned
Returned(fn) == call.fn = fn /\ result # <<>>

\* C16: terraform_validation_router depends on the validation status and the
\* iteration counter only: it routes to terraform_corrector exactly when the
\* status is NEEDS_FIXES and the iteration (0 when absent) is below 2, and to
\* END in every other case.
C16_RouterIsFunctionOfStatusAndIteration ==
    Returned("terraform_validation_router") =>
        LET a == call.arg
            to_corrector == /\ a.status = "NEEDS_FIXES"
                            /\ (IF a.has_iteration THEN a.iteration ELSE 0) < 2
        IN result[1] = IF to_corrector THEN "terraform_corrector" ELSE END

\* the router has sent NEEDS_FIXES at iteration 2 to END
C16_Witness ==
    /\ Returned("terraform_validation_router")
    /\ call.arg.status = "NEEDS_FIXES"
    /\ call.arg.has_iteration /\ call.arg.iteration = 2
    /\ result[1] = END

\* the tag a recommendation starts with, upper-cased
LeadingTag(content) ==
    IF content.prepended # "" THEN content.prepended ELSE Upper(content.raw.starts)

\* C17: the recommendation starts, case-insensitively, with one of the two
\* tags: an answer that starts with a tag is kept as it is; any other answer
\* gets the Ronei tag iff it mentions RONEI and not CARLOS, and the Carlos
\* tag otherwise.
C17_RecommendationStartsWithOneTag ==
    Returned("recommendation") =>
        LET raw == call.arg
            tagged == Upper(raw.starts) \in {"RECOMMEND: CARLOS", "RECOMMEND: RONEI"}
        IN /\ LeadingTag(result[1]) \in {"RECOMMEND: CARLOS", "RECOMMEND: RONEI"}
           /\ result[1].raw = raw
           /\ tagged => result[1].prepended = ""
           /\ ~tagged => result[1].prepended =
                           IF raw.ronei /\ ~raw.carlos
                           THEN "RECOMMEND: RONEI" ELSE "RECOMMEND: CARLOS"

\* an untagged answer that mentions both names has got the Carlos tag
C17_Witness ==
    /\ Returned("recommendation")
    /\ call.arg.starts = "I recommend"
    /\ call.arg.carlos /\ call.arg.ronei
    /\ result[1].prepended = "RECOMMEND: CARLOS"

\* the indicators that occur in the lower-cased text of a requirements string
OccurLowerCased(r) ==
    {m \in FullIndicators :
        \/ m \in r.fragments
        \/ m = "company" /\ "COMPANY" \in r.fragments
        \/ m = "client" /\ "Client" \in r.fragments
        \/ m = "my " /\ "My " \in r.fragments
        \/ m = "project" /\ "Project" \in r.fragments}

\* C18: should_cache is false for empty and whitespace-only input; below 25
\* words it is true iff no indicator of the full list occurs in the
\* lower-cased text; from 25 to 49 words it is true iff none of the reduced
\* list (a subset of the full list) occurs; from 50 words on it is false; and
\* the Redis and the in-memory implementation agree.
C18_ShouldCacheByLengthAndIndicators ==
    /\ ReducedIndicators \subseteq FullIndicators
    /\ Returned("should_cache") =>
          LET r == call.arg
              expected ==
                  IF r.kind # "text" THEN FALSE
                  ELSE IF r.word_count < 25 THEN OccurLowerCased(r) = {}
                  ELSE IF r.word_count <= 49
                       THEN OccurLowerCased(r) \cap ReducedIndicators = {}
                  ELSE FALSE
          IN /\ result[1].redis = expected
             /\ result[1].memory = result[1].redis

\* a 30-word text with an indicator of the full list only is cached
C18_Witness ==
    /\ Returned("should_cache")
    /\ call.arg.word_count = 30
    /\ call.arg.fragments = {"Project"}
    /\ result[1].redis = TRUE

\* the fields of field_order the cached design holds content for, in order
NonEmptyFields(design) ==
    SelectSeq(field_order, LAMBDA fa : design[fa[1]] # "")

\* events[from + 1 .. from + 3k] are the triples of the k non-empty fields
TriplesFrom(events, design, from) ==
    \A i \in 1..Len(NonEmptyFields(design)) :
        LET fa == NonEmptyFields(design)[i]
            start == events[from + 3 * i - 2]
            update == events[from + 3 * i - 1]
            complete == events[from + 3 * i]
        IN /\ start.type = "agent_start" /\ start.agent = fa[2]
           /\ update.type = "field_update" /\ update.field = fa[1]
           /\ update.content = design[fa[1]]
           /\ complete.type = "agent_complete" /\ complete.agent = fa[2]

\* the last event, and only the last, is complete and carries the design
EndsWithOneComplete(events, design) ==
    /\ events[Len(events)].type = "complete"
    /\ events[Len(events)].summary = design
    /\ \A i \in 1..(Len(events) - 1) : events[i].type # "complete"

\* no pool handle has been acquired and no node of the pipeline has run
NoModelInvoked ==
    /\ \A k \in Kinds : in_use[k] = {} /\ pool[k] = <<>>
    /\ \A l \in Leases : lpc[l] = "idle"
    /\ \A n \in Nodes : executions[n] = 0
    /\ gstatus = "idle"

EndedWithAnswers == gstatus = "END" /\ HasAnswers(req)

\* C20: every run with non-empty user_answers that reaches END has, in its
\* final state, the terraform_code the terraform coder has written and an
\* audit_status of approved or needs_revision, never pending or absent.
C20_EndHasTerraformAndAuditVerdict ==
    EndedWithAnswers =>
        /\ executions["terraform_coder"] >= 1
        /\ Truthy(state, "terraform_code")
        /\ "audit_status" \in DOMAIN state
        /\ state["audit_status"] \in {"approved", "needs_revision"}

\* a run with answers has reached END after a rejected and an approved audit
\* and one correction of the terraform code
C20_Witness ==
    /\ EndedWithAnswers
    /\ executions["audit"] = 2
    /\ executions["design"] = 2
    /\ executions["terraform_corrector"] = 1
    /\ state["audit_status"] = "approved"

\* the patches of the current superstep that write audit_status
AuditStatusWriters ==
    {writes[i].node : i \in {j \in 1..Len(writes) :
                                "audit_status" \in DOMAIN writes[j].patch}}

\* C21: audit_status starts as pending and only the auditor step changes it:
\* the state a run starts on holds audit_status = pending, and no patch of a
\* node other than audit writes the field, the audit/redesign loop included.
C21_OnlyAuditorWritesAuditStatus ==
    /\ gstatus = "running" /\ step = 0
           => Get(state, "audit_status", "absent") = "pending"
    /\ AuditStatusWriters \subseteq {"audit"}

\* the report and the structured field in the patch of a reviewer
ReviewerReport(w) ==
    CASE w.node = "security" -> w.patch["security_report"]
      [] w.node = "cost" -> w.patch["cost_report"]
      [] w.node = "reliability" -> w.patch["reliability_report"]
ReviewerData(w) ==
    CASE w.node = "security" -> w.patch["security_data"]
      [] w.node = "cost" -> w.patch["cost_data"]
      [] w.node = "reliability" -> w.patch["reliability_data"]

\* the raw texts a reviewer can hold when the extraction fails
UnextractedAnswers ==
    {r \in ReviewerResponses : ~(ParsesAsJson(r) /\ MatchesSchema(r))}
    \cup {SecurityUnavailable, CostUnavailable, ReliabilityUnavailable}

\* C22: whenever a reviewer step has not extracted a structured analysis (no
\* valid JSON, or valid JSON that fails the schema), its patch leaves the
\* structured field absent (None) and its report is the raw model output.
C22_FailedExtractionLeavesDataAbsent ==
    \A i \in 1..Len(writes) :
        (writes[i].node \in Reviewers
         /\ ReviewerReport(writes[i]) # "formatted report")
            => /\ ReviewerData(writes[i]) = None
               /\ ReviewerReport(writes[i]) \in UnextractedAnswers

\* the auditor's model call has failed in the current superstep: its patch
\* carries the placeholder
AuditCallFailed ==
    \E i \in 1..Len(writes) :
        /\ writes[i].node = "audit"
        /\ writes[i].patch["audit_report"] = AuditUnavailable

\* C23: a failed model call of the auditor does not raise: the step returns
\* the auto-approve placeholder with audit_status = approved, and the run goes
\* on to recommender, not back to design.
C23_AuditFailureAutoApproves ==
    [][/\ executions'["audit"] # executions["audit"] => gstatus' = "running"
       /\ AuditCallFailed =>
             \A i \in 1..Len(writes) :
                 writes[i].node = "audit"
                     => writes[i].patch["audit_status"] = "approved"
       /\ (AuditCallFailed /\ step' # step /\ gstatus' = "running")
             => active' = {"recommender"}]_vars

\* the recommender is about to run on the placeholder of a failed audit
C23_Witness ==
    /\ gstatus = "running"
    /\ active = {"recommender"}
    /\ Get(state, "audit_report", "") = AuditUnavailable
    /\ state["audit_status"] = "approved"
    /\ failures = 1

\* C24: a timeout or any other failure of the historical-context or the
\* reference-context provider does not fail the run: the provider call
\* returns the empty result ("" and, for references, an empty list) without
\* raising, the node returns a patch with empty context, and the edges lead on
\* to the design fan-out.
C24_ProviderFailureOmitsContext ==
    /\ StaticEdges("historical_learning") = {"reference_search"}
    /\ StaticEdges("reference_search") = {"design", "ronei_design"}
    /\ (Returned("context_node") /\ call.arg.outcome \in {"timeout", "error"}) =>
          LET provided == result[1].provided
              patch == result[1].patch
          IN /\ ~provided.raised
             /\ provided.context = ""
             /\ call.arg.provider = "historical"
                   => patch = [historical_context |-> ""]
             /\ call.arg.provider = "reference"
                   => /\ provided.references = <<>>
                      /\ patch = [reference_context |-> "", references |-> <<>>]

\* the reference search has timed out and the node has returned its patch
C24_Witness ==
    /\ Returned("context_node")
    /\ call.arg = [provider |-> "reference", outcome |-> "timeout"]
    /\ result[1].patch["references"] = <<>>

\* the leases of kind k that are open on a handle of the pool
OpenPooledLeases(k) == {l \in Leases : lkind[l] = k /\ idx[l] # NoIdx}

\* C25: in every reachable pool state and for each kind, get_pool_stats
\* reports in_use equal to the number of open leases on pooled handles, with
\* 0 <= in_use <= total and available = total - in_use >= 0; and a call of
\* get_pool_stats returns these numbers and changes no pool state.
C25_StatsCountOpenLeases ==
    /\ [](\A k \in Kinds :
            LET s == get_pool_stats[k]
            IN /\ s.in_use = Cardinality(OpenPooledLeases(k))
               /\ 0 <= s.in_use /\ s.in_use <= s.total
               /\ s.available = s.total - s.in_use
               /\ s.available >= 0)
    /\ [][result' # result
            => /\ result' = <<get_pool_stats>>
               /\ UNCHANGED poolVars]_vars

\* the statistics have been read while two callers hold a main handle, one of
\* them a temporary one: one handle in use, none available
C25_Witness ==
    /\ result # <<>>
    /\ result[1]["main"] = [total |-> 1, in_use |-> 1, available |-> 0]
    /\ result[1] = get_pool_stats
    /\ \A l \in Leases : lkind[l] = "main" /\ lpc[l] = "body"

\* C26: a streaming request that supplies document_task_ids bypasses
\* caching: it is not served from the cache and causes neither a cache
\* lookup nor a cache write, whatever the state of the referenced tasks.
C26_DocumentRequestBypassesCache ==
    (Returned("design_stream_cache") /\ call.arg.document_task_ids # <<>>)
        => /\ ~result[1].lookup
           /\ result[1].served = "pipeline"
           /\ ~result[1].written

\* the patches of the current superstep that write the iteration counter
IterationWrites ==
    {i \in 1..Len(writes) :
        "terraform_correction_iteration" \in DOMAIN writes[i].patch}

BufferedTokens(patch) ==
    LET lists == {f \in DOMAIN patch :
                     \E i \in 1..Len(TokenFields) : TokenFields[i] = f}
    IN IF lists = {} THEN <<>> ELSE patch[CHOOSE f \in lists : TRUE]

\* b is the bracket of one completion with the given patch: agent_start, one
\* token event per buffered token in list order, field updates of different
\* fields, agent_complete
IsBracketOf(b, patch) ==
    LET n == Len(b)
        k == Len(BufferedTokens(patch))
    IN /\ n >= k + 2
       /\ b[1].type = "agent_start"
       /\ b[n].type = "agent_complete"
       /\ \A i \in 1..k :
             /\ b[1 + i].type = "token"
             /\ b[1 + i].content = BufferedTokens(patch)[i]
       /\ \A i \in (k + 2)..(n - 1) :
             /\ b[i].type = "field_update"
             /\ b[i].field \in DOMAIN patch
             /\ \A j \in (k + 2)..(n - 1) : i # j => b[i].field # b[j].field

\* C28: in the live stream the events of each node completion form one
\* contiguous bracket: agent_start, one token event per buffered token in
\* token-list order, at most one field_update per field, agent_complete; the
\* events sent for one completion are this bracket and nothing else, also
\* when the completions are those of nodes that ran in parallel.
C28_EventsFormContiguousBrackets ==
    [][streamed' = streamed + 1
          => /\ IsBracketOf(bracket', writes[streamed + 1].patch)
             /\ emitted' = emitted + Len(bracket')
             /\ writes' = writes]_vars

\* the bracket of the second of three reviewers that ran in parallel: two
\* tokens and the report between agent_start and agent_complete
C28_Witness ==
    /\ Len(writes) = 3 /\ streamed = 2
    /\ writes[2].node \in Reviewers
    /\ bracket # <<>>
    /\ bracket[1].agent = writes[2].node
    /\ Len(bracket) = 5
    /\ bracket[3].type = "token" /\ bracket[3].content = [chunk |-> 2]

\* C29: every token event of a node completion carries the agent identifier
\* of the agent_start and agent_complete events that bracket it, for all
\* nodes of the pipeline.
C29_TokensCarryBracketAgent ==
    \A i \in 1..Len(bracket) :
        bracket[i].type = "token"
            => /\ bracket[i].agent = bracket[1].agent
               /\ bracket[i].agent = bracket[Len(bracket)].agent

\* the nodes whose patch carries a transcript
TranscriptWriters == Nodes \ {"historical_learning", "reference_search"}

\* how often the nodes of a set have run
RECURSIVE Executions(_)
Executions(ns) ==
    IF ns = {} THEN 0
    ELSE LET n == CHOOSE m \in ns : TRUE
         IN executions[n] + Executions(ns \ {n})

\* C30: the transcript a step returns is a delta of that step's own entry
\* only, so that the merged transcript holds every entry exactly once: after
\* k completions of transcript-writing nodes it consists of exactly k entries.
C30_TranscriptHoldsEachEntryOnce ==
    /\ \A i \in 1..Len(writes) :
           "conversation" \in DOMAIN writes[i].patch
               => ConvLen(writes[i].patch["conversation"]) = 1
    /\ (gstatus \in {"running", "END", "out_of_steps"} /\ writes = <<>>)
           => ConvLen(state["conversation"]) = Executions(TranscriptWriters)

\* caller l leaves the lock of the acquire half with every pooled handle of
\* its kind in use: its lease is an overflow lease
AcquiresOverflow(l) ==
    /\ lpc[l] = "locked" /\ lpc'[l] = "body"
    /\ in_use[lkind[l]] = PoolIndices(lkind[l])

\* caller l leaves the context manager of a lease without pool index
ReleasesOverflow(l) ==
    /\ lpc[l] = "body" /\ idx[l] = NoIdx
    /\ lpc'[l] = "idle"

\* C31: an overflow lease leaves the pool unchanged: acquiring it and
\* releasing it change neither the in-use set nor the pool (the temporary
\* handle is never added), the lease holds no pool index, so its release
\* clears no marker of a handle another lease holds.
C31_OverflowLeaseLeavesPoolUnchanged ==
    [][\A l \in Leases :
          /\ AcquiresOverflow(l)
                => /\ idx'[l] = NoIdx
                   /\ in_use' = in_use /\ pool' = pool
          /\ ReleasesOverflow(l)
                => /\ in_use' = in_use /\ pool' = pool
                   /\ \A m \in Leases \ {l} :
                          HoldsPooled(m) => idx[m] \in in_use'[lkind[m]]]_vars

\* an overflow lease has been released while the other caller still holds
\* the only pooled handle of the kind
C31_Witness ==
    \E l, m \in Leases :
        /\ poolHist.overflow
        /\ lpc[l] = "idle"
        /\ lpc[m] = "body" /\ idx[m] # NoIdx
        /\ in_use[lkind[m]] = PoolIndices(lkind[m])
        /\ Len(pool[lkind[m]]) = 1

\* C32 as stated: after warm-up of a pool of size N >= 1 the capacities are
\* main = N, mini = N and ronei = N/2 rounded up, and at least 2.
C32_RoneiHalfRoundedUp ==
    Returned("initialize") =>
        LET n == call.arg.size
        IN /\ result[1]["main"].total = n
           /\ result[1]["mini"].total = n
           /\ result[1]["ronei"].total = Max(2, (n + 1) \div 2)

\* C32, amended: after warm-up of a pool of size N >= 1 the capacities are
\* main = N, mini = N and ronei = the larger of 2 and N/2 rounded down.
C32_RoneiHalfRoundedDown ==
    Returned("initialize") =>
        LET n == call.arg.size
        IN /\ result[1]["main"].total = n
           /\ result[1]["mini"].total = n
           /\ result[1]["ronei"].total = (IF n \div 2 >= 2 THEN n \div 2 ELSE 2)

\* a pool of size 5 has been warmed up: two ronei handles, not three
C32_Witness ==
    /\ Returned("initialize")
    /\ call.arg.size = 5
    /\ result[1]["ronei"].total = 2
    /\ result[1]["main"].total = 5

\* two words that differ in letter case at most
SameWord(v, w) ==
    \/ v = w
    \/ {v, w} \subseteq {"web", "Web", "WEB"}
    \/ {v, w} \subseteq {"app", "App"}

\* two texts that differ in letter case and whitespace at most
SameText(s, t) ==
    /\ Len(s.words) = Len(t.words)
    /\ \A i \in 1..Len(s.words) : SameWord(s.words[i], t.words[i])

\* C33: generate_cache_key depends only on the normalized requirements,
\* scenario, cost_performance and compliance: two requests whose requirements
\* differ only in letter case or whitespace and that agree on the three
\* settings get the same key from each implementation, whatever their other
\* fields are.
C33_KeyOfNormalizedFields ==
    Returned("generate_cache_key") =>
        LET a == call.arg.a
            b == call.arg.b
            agree == /\ SameText(a.text, b.text)
                     /\ a.settings.scenario = b.settings.scenario
                     /\ a.settings.priorities.cost_performance
                           = b.settings.priorities.cost_performance
                     /\ a.settings.priorities.compliance
                           = b.settings.priorities.compliance
        IN agree => /\ result[1]["a"].redis = result[1]["b"].redis
                    /\ result[1]["a"].memory = result[1]["b"].memory

\* "  Web   App " with reliability set and "web app" without have got one key
C33_Witness ==
    /\ Returned("generate_cache_key")
    /\ call.arg.a.text = [words |-> <<"Web", "App">>, padded |-> TRUE]
    /\ call.arg.b.text = [words |-> <<"web", "app">>, padded |-> FALSE]
    /\ call.arg.a.settings.priorities.reliability = "high"
    /\ call.arg.b.settings.priorities.reliability = None
    /\ result[1]["a"] = result[1]["b"]

\* the fields of a patch other than the transcript
OwnFields(patch) == DOMAIN patch \ {"conversation"}

\* the patches of the current superstep that write field k
WritersOf(k) == {i \in 1..Len(writes) : k \in OwnFields(writes[i].patch)}

\* C34: the nodes of one superstep (the two designs, the three reviewers)
\* write pairwise disjoint non-transcript fields, so after the merge every
\* non-transcript field is the value of its one writer, or the value it had,
\* whatever the order in which the branches completed.
C34_MergeIndependentOfCompletionOrder ==
    [][/\ \A i, j \in 1..Len(writes) :
             i # j => OwnFields(writes[i].patch) \cap OwnFields(writes[j].patch) = {}
       /\ step' # step =>
             \A k \in DOMAIN state' \ {"conversation"} :
                 IF WritersOf(k) = {} THEN state'[k] = state[k]
                 ELSE \A i \in WritersOf(k) : state'[k] = writes[i].patch[k]]_vars

\* the three reviewers have completed, reliability first and security last
C34_Witness ==
    /\ gstatus = "running" /\ active = {}
    /\ Len(writes) = 3
    /\ writes[1].node = "reliability"
    /\ writes[3].node = "security"

\* node n has started; node n has run and is not running
Started(n) == n \in active \/ executions[n] > 0
Done(n) == n \notin active /\ executions[n] > 0

C37_OneOfGatheringAndRefining ==
    /\ executions["requirements_gathering"] + executions["refine_requirements"] <= 1
    /\ Started("requirements_gathering") => ~Started("refine_requirements")
    /\ Started("requirements_gathering") =>
          Truthy(state, "user_answers") = HasAnswers(req)
    /\ RunStopped =>
          executions["requirements_gathering"] + executions["refine_requirements"] = 1

\* a run has ended after requirements_gathering, without refine_requirements
C37_Witness ==
    /\ gstatus = "END"
    /\ executions["requirements_gathering"] = 1
    /\ executions["refine_requirements"] = 0

\* C38: once recommender has run, the run reaches END after at most three
\* executions of terraform_validator, and a run that ends with
\* terraform_validation_status NEEDS_FIXES ends with
\* terraform_correction_iteration 2
C38_TerraformLoopEndsWithinCap ==
    /\ executions["terraform_validator"] <= MAX_CORRECTION_ITERATIONS + 1
    /\ (RunStopped /\ executions["recommender"] > 0) =>
          /\ gstatus = "END"
          /\ Get(state, "terraform_validation_status", "PASS") = "NEEDS_FIXES"
                => Get(state, "terraform_correction_iteration", 0)
                      = MAX_CORRECTION_ITERATIONS

\* an error whose message holds one of the rate-limit markers, in any case
RateLimitError(e) ==
    /\ e.kind # "return"
    /\ e.message \cap {"rate_limit", "429", "too many requests", "quota",
                       "QUOTA"} # {}

\* C39: a call of a function wrapped by retry_with_backoff(max_retries = R)
\* invokes the function at most R + 1 times; every invocation but the last
\* ended in a rate-limit error; the call returns what the last invocation
\* returned, or raises the error the last invocation raised
C39_RetryOnlyOnRateLimitWithinCap ==
    (call.fn = "retry_with_backoff" /\ result # <<>>) =>
        LET R == call.arg.max_retries
            outcomes == call.arg.outcomes
            n == result[1].invocations
        IN /\ n \in 1..(R + 1)
           /\ \A i \in 1..(n - 1) : RateLimitError(outcomes[i])
           /\ result[1].value = outcomes[n]
           /\ result[1].raised <=> outcomes[n].kind # "return"

\* two rate-limit errors, then the third invocation returns
C39_Witness ==
    /\ call.fn = "retry_with_backoff"
    /\ result # <<>>
    /\ call.arg.max_retries = 2
    /\ result[1].invocations = 3
    /\ ~result[1].raised

\* the task ids of the request that name a stored task of the requesting user
\* with status completed, in the order of the request
CompletedOwn(a) ==
    SelectSeq(a.task_ids,
              LAMBDA id : /\ id \in DOMAIN a.tasks
                          /\ a.tasks[id].username = a.username
                          /\ a.tasks[id].status = "completed")

\* C40: the document context of a request holds one part for each task id of
\* the request that names an existing, completed task of the requesting
\* user, made of that task's file name and text, and nothing for any other
\* task id; to_dict shows the extracted_text of a task exactly while its
\* status is completed
C40_ContextFromOwnCompletedTasksOnly ==
    /\ Returned("build_document_context") =>
          LET parts == result[1].context_parts
              own == CompletedOwn(call.arg)
          IN /\ Len(parts) = Len(own)
             /\ result[1].empty <=> own = <<>>
             /\ \A i \in 1..Len(own) :
                   /\ parts[i].document = call.arg.tasks[own[i]].filename
                   /\ parts[i].content = call.arg.tasks[own[i]].extracted_text
    /\ (Returned("get_document_status") /\ result[1].status_code = 200) =>
          LET task == call.arg.tasks[call.arg.task_id]
          IN result[1].body.extracted_text =
                IF task.status = "completed" THEN task.extracted_text ELSE None

\* a context with one part, built for a request that also names a task of
\* another user that is completed
C40_Witness ==
    /\ Returned("build_document_context")
    /\ Len(call.arg.task_ids) = 2
    /\ Len(result[1].context_parts) = 1
    /\ \E i \in 1..2 :
          LET id == call.arg.task_ids[i]
          IN /\ id \in DOMAIN call.arg.tasks
             /\ call.arg.tasks[id].username # call.arg.username
             /\ call.arg.tasks[id].status = "completed"

====
